---- MODULE Spec2Model ----
(***************************************************************************)
(* State-machine model of scripts/sync-games.py: main, which opens the     *)
(* persistent ssh session, loads the catalog and closes the session in its *)
(* finally clause; the reconciliation loop                                 *)
(* GameDownloader.download_and_process_games; and the transfer operations  *)
(* it drives (download_file, extract_zip, upload_folder).                  *)
(*                                                                         *)
(* Target names are the integers 1..MaxItems.  The remote directory that   *)
(* upload_folder uses as temporary name of target n ("<n>.uploading") is   *)
(* the child Uploading(n) of the remote path.                              *)
(*                                                                         *)
(* Content of a path:                                                      *)
(*   "absent"      the path does not exist                                 *)
(*   "full"        a folder holding every file of the item's archive       *)
(*   "incomplete"  a folder left by an interrupted extraction              *)
(*   "copying"     a remote folder a recursive copy did not finish         *)
(* The script is the only writer of the local directory and of the mirror  *)
(* while it runs; what earlier (possibly interrupted) runs left behind is  *)
(* read when the code first looks at it.  A remote command whose exit      *)
(* status the code checks (scp, mv: check=True) either succeeds or fails;  *)
(* "rm -rf", whose status the code ignores, removes the path.              *)
(***************************************************************************)
EXTENDS Integers, Sequences, FiniteSets, TLC

\* Number of target names of the model.
MaxItems == 2

\* Largest value of --max-transfers the model draws (None is drawn as well).
MaxBudget == 1

\* Largest number of data lines of a sheet.
MaxLines == 2

Names == 1..MaxItems

Uploading(n) == n + MaxItems

VARIABLES
    scp_server,                 \* self.scp_server is set
    scp_path,                   \* self.scp_path is set
    max_transfers,              \* {} for None, {m} for --max-transfers m
    ssh_connection,             \* "not_opened", "open" or "closed"
    games_metadata,             \* catalog: target names that have a record
    pc,                         \* position of the run
    remote_final,               \* mirror: content of <scp_path>/<n>
    remote_temp,                \* mirror: content of <scp_path>/<n>.uploading
    remote_folders,             \* the run's snapshot of the remote children
    snapshot0,                  \* the snapshot as first captured
    all_games_to_process,       \* work list: sequence of target names
    skipped_overrides,          \* override entries marked skip, not in game_ids
    idx,                        \* number of work-list items taken so far
    game_data,                  \* the item being decided
    exists_on_remote,
    allow_transfers,
    should_process_metadata,
    local,                      \* local paths of the item being decided
    downloaded_file,            \* "unset", "None" or "path"
    upload_result,              \* "none", "True" or "False"
    branch,                     \* path taken through the loop body
    transfer_count,
    any_uploads_occurred,
    processed_games_metadata,   \* sequence of target names (records appended)
    downloads_started,          \* transfers download_file started, whole run
    copies_started,             \* scp copies upload_folder issued, whole run
    item_attempts,              \* the same and the renames, for this item
    copy_ok,                    \* the scp of the running upload_folder exited 0
    retrieve_ok,                \* urlretrieve of the running download_file returned
    games_json,                 \* <<>> or <<sequence of records written>>
    index_built,                \* build_http_index was called
    orphaned_folders,           \* names reported by the orphan error
    compatible_game_ids,        \* self.compatible_game_ids
    games,                      \* self.games: key -> download URL
    all_download_urls,          \* self.all_download_urls
    games_metadata_records,     \* self.games_metadata as the list of records
    records_before,             \* that list as it was before the last call
    last_call,                  \* the last loader row or override entry applied
    zip_namelist,               \* names of the entries of the archive
    zip_exists,                 \* the archive file is in the download directory
    extract_dir,                \* {} or {names below <download_dir>/<stem>}
    extract_dir_before,         \* extract_dir as the last call found it
    extract_result,             \* "none", "extract_dir" or "raised"
    run,                        \* 0: a single run; 1, 2: first and second of two
    item_plan,                  \* target name -> the entry the first run decided
    transferred_before,         \* names the first run downloaded or uploaded
    sheet_header,               \* the header names of a sheet, in column order
    sheet_lines,                \* its data lines, each a sequence of cells
    tsv_text,                   \* the body fetch_tsv received, as characters
    tsv_result,                 \* {} or {the list parse_tsv returned}
    file_tree,                  \* directories that hold listed files
    index_docs,                 \* directory -> state of its index.json
    probe_result,               \* directory -> outcome of its test -f
    scp_issued,                 \* directories whose index.json was sent
    pending                     \* directories the recursion has still to visit

vars == <<scp_server, scp_path, max_transfers, ssh_connection, games_metadata,
          pc, remote_final, remote_temp,
          remote_folders, snapshot0, all_games_to_process, skipped_overrides,
          idx, game_data, exists_on_remote, allow_transfers, should_process_metadata, local,
          downloaded_file, upload_result, branch, transfer_count,
          any_uploads_occurred, processed_games_metadata, downloads_started,
          copies_started, item_attempts, copy_ok, retrieve_ok, games_json,
          index_built, orphaned_folders,
          compatible_game_ids, games, all_download_urls,
          games_metadata_records, records_before, last_call,
          zip_namelist, zip_exists, extract_dir, extract_dir_before,
          extract_result,
          run, item_plan, transferred_before,
          sheet_header, sheet_lines, tsv_text, tsv_result,
          file_tree, index_docs, probe_result, scp_issued, pending>>

\* The catalog as the loaders and the override step build it.
catalogState == <<compatible_game_ids, games, all_download_urls,
                  games_metadata_records, records_before, last_call>>

\* An archive, its destination folder and the outcome of extract_zip.
archiveState == <<zip_namelist, zip_exists, extract_dir, extract_dir_before,
                  extract_result>>

\* Two runs in a row over the same catalog.
rerunState == <<run, item_plan, transferred_before>>

\* A sheet, the body exported for it and what parse_tsv made of the body.
sheetState == <<sheet_header, sheet_lines, tsv_text, tsv_result>>

\* The mirror as build_http_index sees it and the walk over its directories.
indexState == <<file_tree, index_docs, probe_result, scp_issued, pending>>

----------------------------------------------------------------------------
\* Helpers

RECURSIVE SetToSortedSeq(_)
SetToSortedSeq(S) ==
    IF S = {} THEN <<>>
    ELSE LET m == CHOOSE x \in S : \A y \in S : x <= y
         IN <<m>> \o SetToSortedSeq(S \ {m})

SeqRange(s) == {s[i] : i \in 1..Len(s)}

NoItem == [target_name |-> 0, source |-> "none", url |-> "none",
           download_url |-> "none", zip |-> FALSE, skip |-> FALSE,
           record |-> FALSE]

NoLocal == [folder |-> "absent", file |-> FALSE, tmp |-> FALSE]

NoAttempts == [download |-> 0, copy |-> 0, rename |-> 0]

----------------------------------------------------------------------------
\* Inputs of the loop body

\* The entries the work-list construction can produce for target name n.
\* url: kind of game_data['url'] ("none" when the key is absent, "frs" when it
\* starts with https://downloads.scummvm.org/frs); download_url: kind of
\* game_data['download_url'] ("none": key absent, "empty": '', "rel_frs":
\* starts with /frs, "abs_frs": starts with https://downloads.scummvm.org/frs);
\* zip: the file name ends with .zip (drawn both ways where the code reads
\* it: for a download from downloads.scummvm.org/frs);
\* skip: self.metadata[n]['skip'], which lines 1093-1110 admit only for an
\* entry that came from game_ids;
\* record: self.games_metadata has a record whose relative_path is n.
GameData(n) ==
    [target_name : {n}, source : {"google_sheets"}, url : {"frs"},
     download_url : {"none"}, zip : BOOLEAN, skip : BOOLEAN, record : BOOLEAN]
    \cup
    [target_name : {n}, source : {"google_sheets"}, url : {"other"},
     download_url : {"none"}, zip : {TRUE}, skip : BOOLEAN, record : BOOLEAN]
    \cup
    [target_name : {n}, source : {"merged"}, url : {"frs"},
     download_url : {"abs_frs"}, zip : BOOLEAN, skip : {FALSE},
     record : {TRUE}]
    \cup
    [target_name : {n}, source : {"merged"}, url : {"other"},
     download_url : {"other"}, zip : {TRUE}, skip : {FALSE}, record : {TRUE}]
    \cup
    [target_name : {n}, source : {"metadata_only"}, url : {"none"},
     download_url : {"rel_frs", "abs_frs"}, zip : BOOLEAN, skip : {FALSE},
     record : {TRUE}]
    \cup
    [target_name : {n}, source : {"metadata_only"}, url : {"none"},
     download_url : {"empty", "other"}, zip : {FALSE}, skip : {FALSE},
     record : {TRUE}]

\* What a run (finished or interrupted) can leave of an item in download_dir.
\* For an item that is no archive, target name and file name are one path.
LocalStates(zip) ==
    IF zip
    THEN { [folder |-> "absent", file |-> FALSE, tmp |-> FALSE],
           [folder |-> "absent", file |-> FALSE, tmp |-> TRUE],
           [folder |-> "absent", file |-> TRUE, tmp |-> FALSE],
           [folder |-> "incomplete", file |-> TRUE, tmp |-> FALSE],
           [folder |-> "full", file |-> TRUE, tmp |-> FALSE],
           [folder |-> "full", file |-> FALSE, tmp |-> FALSE] }
    ELSE { [folder |-> "absent", file |-> FALSE, tmp |-> FALSE],
           [folder |-> "absent", file |-> FALSE, tmp |-> TRUE],
           [folder |-> "absent", file |-> TRUE, tmp |-> FALSE] }

----------------------------------------------------------------------------
\* Pure helpers of the code

Configured == scp_server /\ scp_path

\* get_remote_folders: the children of the remote path that are directories.
ListChildDirectories(final, temp) ==
    {n \in Names : final[n] # "absent"}
        \cup {Uploading(n) : n \in {m \in Names : temp[m] # "absent"}}

\* Any entry taken as downloadable.
HasScummvmDownload_Any(g) == TRUE

\* lines 1124-1139
HasScummvmDownload(g) ==
    IF g.url # "none" THEN g.url = "frs"
    ELSE g.download_url \in {"rel_frs", "abs_frs"}

\* filename is set at line 1127 or 1142
HasFilename(g) == g.url # "none" \/ HasScummvmDownload(g)

IsZip(g) == HasFilename(g) /\ g.zip

\* A lookup that lists the remote path anew for every item.
RemoteFoldersSet_Refetched(prefetched, final, temp) ==
    ListChildDirectories(final, temp)

\* line 1148: the set the lookup of an item is given is the one line 1047
\* fetched (lines 725-730 then use it and make no remote call).
RemoteFoldersSet(prefetched, final, temp) == prefetched

\* A lookup that never finds the name.
FolderExistsOnRemote_Never(n, set) == FALSE

\* folder_exists_on_remote with the pre-fetched set
FolderExistsOnRemote(n, set) == Configured /\ n \in set

\* folder_exists_on_remote without line 728: a matched name stays in the set.
RemoveFromSnapshot_Keep(n, set) == set

RemoveFromSnapshot(n, set) ==
    IF Configured /\ n \in set THEN set \ {n} ELSE set

\* lines 1158-1167 and 1172-1181
CleanCompletedRemote(g, l) ==
    IF HasScummvmDownload(g) /\ HasFilename(g)
    THEN [folder |-> "absent", file |-> FALSE, tmp |-> l.tmp]
    ELSE l

\* line 1193
AllowTransfers(mt, count) == mt = {} \/ \E m \in mt : count < m

\* line 1198
ExtractedFolderPresent(g, l) == IsZip(g) /\ l.folder # "absent"

\* A loop that returns from the run at the first item it may not transfer.
NotAllowedNext_Return(b) == "returned"

\* lines 1194-1195, 1200-1204 and 1238: with the limit reached the loop body
\* goes on: to line 1204 when the extracted folder is local, past the
\* cleanup of lines 1240-1248 to line 1250 otherwise.
NotAllowedNext(b) == IF b = "local_folder" THEN "after_upload" ELSE "mark"

\* lines 1240-1248
CleanTransfersNotAllowed(l) ==
    [folder |-> "absent", file |-> FALSE, tmp |-> l.tmp]

\* extract_zip: an existing folder is returned as it is; otherwise the archive
\* is extracted and removed.
ExtractZip(l) ==
    IF l.folder # "absent" THEN l
    ELSE [folder |-> "full", file |-> FALSE, tmp |-> l.tmp]

\* lines 1205-1210
RemoveLocalFolder(l) == [l EXCEPT !.folder = "absent"]

\* The values of the 'id' field of a record: 1, 2 and 3 stand for the strings
\* "B", "a" and "b", in the order Python gives to strings.
Ids == 1..3

\* x['id'].lower(): "B" becomes "b".
IdLower(id) == IF id = 1 THEN 3 ELSE id

\* The record of target name n, its id being ids[n].
Record(n, ids) == [id |-> ids[n], relative_path |-> n]

\* sorted(..., key=lambda x: x['id'].lower()), which keeps the order of
\* records with equal keys.
RECURSIVE InsertSorted(_, _)
InsertSorted(x, s) ==
    IF s = <<>> THEN <<x>>
    ELSE IF IdLower(x.id) < IdLower(Head(s).id) THEN <<x>> \o s
    ELSE <<Head(s)>> \o InsertSorted(x, Tail(s))

\* An export that writes the records in the order they were appended.
SortedById_Unsorted(s) == s

RECURSIVE SortedById(_)
SortedById(s) ==
    IF s = <<>> THEN <<>>
    ELSE InsertSorted(s[Len(s)], SortedById(SubSeq(s, 1, Len(s) - 1)))

\* generate_games_json (lines 985-999): the whole catalog.
ExportedRecords_All(processed, catalog) == SetToSortedSeq(catalog)

\* line 1007: the list generate_processed_games_json sorts and writes.
ExportedRecords(processed, catalog) == processed

\* A lookup that takes the record it finds out of the catalog.
GamesMetadataAfterLookup_Moved(catalog, n) == catalog \ {n}

\* lines 1253-1260: the lookup reads self.games_metadata, and the processed
\* list gets a reference to the record found; the catalog stays as it is.
GamesMetadataAfterLookup(catalog, n) == catalog

\* Line 1251 without its test of should_process_metadata.
AppendProcessed_Always(should, g, processed) ==
    IF g.record THEN Append(processed, g.target_name) ELSE processed

\* lines 1251-1262
AppendProcessed(should, g, processed) ==
    IF should /\ g.record THEN Append(processed, g.target_name) ELSE processed

----------------------------------------------------------------------------
\* The catalog: spreadsheet rows, records and override entries
\*
\* An optional key of a dict is a set: {} when the key is missing, {v} when
\* it holds v.  A description is the sequence of its words.

\* Values of the id column of the three sheets.
GameIds == {"scumm:g1", "g2"}

\* game_id[game_id.rfind(':') + 1:] if ':' in game_id else game_id
ShortName(game_id) == IF game_id = "scumm:g1" THEN "g1" ELSE game_id

\* Values of the url column.
SheetUrls == {"a/x.zip", "b/x.zip", "a/y"}

\* url[url.rfind('/') + 1:]
FilenameFromUrl(url) == IF url = "a/y" THEN "y" ELSE "x.zip"

\* _get_relative_path: the file name without a trailing ".zip".
GetRelativePath(url) == IF FilenameFromUrl(url) = "x.zip" THEN "x" ELSE "y"

RelativePaths == {GetRelativePath(u) : u \in SheetUrls}

\* self.platforms_data.get(platform_id, {}).get('name', platform_id)
PlatformName(platform_id) == IF platform_id = "dos" THEN "DOS" ELSE platform_id

\* The columns _extract_languages reads, in its order.
lang_columns == <<"lang", "language", "language1", "language2", "language3">>

\* Values of a language cell; a cell the sheet lacks reads as "".
LangValues == {"", " ", "en", "de", " de"}

\* str.strip on the values of language cells.
Strip(value) ==
    CASE value = " " -> ""
      [] value = " de" -> "de"
      [] OTHER -> value

NoCells == [c \in SeqRange(lang_columns) |-> ""]

RECURSIVE ExtractLanguagesFrom(_, _, _)
ExtractLanguagesFrom(data, i, languages) ==
    IF i > Len(lang_columns) THEN languages
    ELSE LET lang_value == Strip(data[lang_columns[i]])
         IN ExtractLanguagesFrom(data, i + 1,
                IF lang_value # "" /\ lang_value \notin SeqRange(languages)
                THEN Append(languages, lang_value)
                ELSE languages)

\* _extract_languages
ExtractLanguages(data) == ExtractLanguagesFrom(data, 1, <<>>)

\* languages.remove('en'): the list without the first "en".
RemoveEn(languages) ==
    LET i == CHOOSE k \in 1..Len(languages) :
                 /\ languages[k] = "en"
                 /\ \A j \in 1..(k - 1) : languages[j] # "en"
    IN SubSeq(languages, 1, i - 1) \o SubSeq(languages, i + 1, Len(languages))

StoredLanguages_Kept(languages) ==
    IF languages = <<>> THEN {} ELSE {languages}

\* The 'languages' key of a record add_or_update_game_metadata creates.
StoredLanguages(languages) ==
    IF languages = <<>> THEN {}
    ELSE LET rest == IF "en" \in SeqRange(languages)
                     THEN RemoveEn(languages) ELSE languages
         IN IF rest = <<>> THEN {} ELSE {rest}

NoRow == [sheet |-> "none", id |-> "", url |-> "", text |-> "",
          category |-> "", platform |-> "", cells |-> NoCells]

\* A metadata.json entry without keys; also metadata_overrides=None.
NoEntry == [id |-> {}, skip |-> {}, description |-> {}, platform |-> {},
            relative_path |-> {}]

NoCall == [kind |-> "none", row |-> NoRow, relative_path |-> "",
           entry |-> NoEntry]

\* Index of the first record stored under relative_path, 0 when there is none.
ExistingIndex(records, relative_path) ==
    LET hits == {i \in 1..Len(records) :
                     records[i].relative_path = {relative_path}}
    IN IF hits = {} THEN 0
       ELSE CHOOSE i \in hits : \A j \in hits : i <= j

\* for key, value in metadata_overrides.items(): game_metadata[key] = value
ApplyOverrides(game_metadata, metadata_overrides) ==
    [key \in DOMAIN game_metadata |->
        IF key \in DOMAIN metadata_overrides /\ metadata_overrides[key] # {}
        THEN metadata_overrides[key]
        ELSE game_metadata[key]]

\* The record add_or_update_game_metadata creates when none exists.
NewMetadata(game_id, relative_path, description, download_url, languages, platform) ==
    [id |-> game_id, relative_path |-> {relative_path},
     description |-> description, download_url |-> download_url,
     languages |-> StoredLanguages(languages),
     platform |-> platform \ {""}, skip |-> {}]

\* add_or_update_game_metadata
AddOrUpdateGameMetadata(records, game_id, relative_path, description, download_url, languages, platform, metadata_overrides) ==
    LET existing_index == ExistingIndex(records, relative_path)
        game_metadata ==
            ApplyOverrides(
                IF existing_index # 0 THEN records[existing_index]
                ELSE NewMetadata(game_id, relative_path, description,
                                 download_url, languages, platform),
                metadata_overrides)
    IN IF existing_index # 0
       THEN [records EXCEPT ![existing_index] = game_metadata]
       ELSE Append(records, game_metadata)

\* One iteration of the loop of _load_and_apply_metadata.
ApplyMetadataEntry(records, relative_path, metadata_entry) ==
    IF metadata_entry.skip = {TRUE} THEN records
    ELSE IF metadata_entry.id = {} THEN records
    ELSE AddOrUpdateGameMetadata(records, metadata_entry.id, relative_path,
                                 metadata_entry.description, {}, <<>>,
                                 metadata_entry.platform, metadata_entry)

CatalogIdle ==
    /\ compatible_game_ids = {}
    /\ games = <<>>
    /\ all_download_urls = <<>>
    /\ games_metadata_records = <<>>
    /\ records_before = <<>>
    /\ last_call = NoCall

ArchiveIdle ==
    /\ zip_namelist = {}
    /\ zip_exists = FALSE
    /\ extract_dir = {}
    /\ extract_dir_before = {}
    /\ extract_result = "none"

RerunIdle ==
    /\ run = 0
    /\ item_plan = <<>>
    /\ transferred_before = {}

SheetIdle ==
    /\ sheet_header = <<>>
    /\ sheet_lines = <<>>
    /\ tsv_text = <<>>
    /\ tsv_result = {}

IndexIdle ==
    /\ file_tree = {}
    /\ index_docs = <<>>
    /\ probe_result = <<>>
    /\ scp_issued = {}
    /\ pending = <<>>

----------------------------------------------------------------------------
\* The run: main and download_and_process_games

Init ==
    /\ scp_server \in BOOLEAN
    /\ scp_path \in BOOLEAN
    /\ max_transfers \in {{}} \cup {{m} : m \in 0..MaxBudget}
    /\ ssh_connection = "not_opened"
    /\ games_metadata = {}
    /\ pc = "open_ssh"
    /\ remote_final \in [Names -> {"absent", "full"}]
    /\ remote_temp \in [Names -> {"absent", "copying"}]
    /\ \A n \in Names : remote_final[n] = "absent" \/ remote_temp[n] = "absent"
    /\ (~(scp_server /\ scp_path) =>
            /\ remote_final = [n \in Names |-> "absent"]
            /\ remote_temp = [n \in Names |-> "absent"])
    /\ remote_folders = {}
    /\ snapshot0 = {}
    /\ all_games_to_process = <<>>
    /\ skipped_overrides = {}
    /\ idx = 0
    /\ game_data = NoItem
    /\ exists_on_remote = FALSE
    /\ allow_transfers = FALSE
    /\ should_process_metadata = FALSE
    /\ local = NoLocal
    /\ downloaded_file = "unset"
    /\ upload_result = "none"
    /\ branch = "none"
    /\ transfer_count = 0
    /\ any_uploads_occurred = FALSE
    /\ processed_games_metadata = <<>>
    /\ downloads_started = 0
    /\ copies_started = 0
    /\ item_attempts = NoAttempts
    /\ copy_ok = FALSE
    /\ retrieve_ok = FALSE
    /\ games_json = <<>>
    /\ index_built = FALSE
    /\ orphaned_folders = {}
    /\ CatalogIdle
    /\ ArchiveIdle
    /\ RerunIdle
    /\ SheetIdle
    /\ IndexIdle

\* Everything but pc and the listed variables, for the steps of main.
runState == <<scp_server, scp_path, max_transfers, remote_final, remote_temp,
              remote_folders, snapshot0, all_games_to_process,
              skipped_overrides, idx, game_data, exists_on_remote,
              allow_transfers, should_process_metadata, local,
              downloaded_file, upload_result, branch, transfer_count,
              any_uploads_occurred, processed_games_metadata,
              downloads_started, copies_started, item_attempts, copy_ok,
              retrieve_ok, games_json, index_built, orphaned_folders>>

\* line 1320 and _open_ssh_connection: ssh -MNf <scp_server>, run with
\* check=True before the try statement.  Without a server the command names
\* the host "None" and fails; CalledProcessError ends the program.
OpenSshConnection ==
    /\ pc = "open_ssh"
    /\ \E ok \in BOOLEAN :
        /\ ok => scp_server
        /\ IF ok
           THEN /\ ssh_connection' = "open"
                /\ pc' = "catalog"
           ELSE /\ UNCHANGED ssh_connection
                /\ pc' = "open_failed"
    /\ UNCHANGED <<games_metadata, runState>>
    /\ UNCHANGED <<catalogState, archiveState, rerunState, sheetState, indexState>>

\* lines 1339-1352: the catalog builders and the override merge fill
\* self.games_metadata; a record is identified by its relative_path.
LoadCatalog ==
    /\ pc = "catalog"
    /\ games_metadata' \in SUBSET Names
    /\ pc' = "snapshot"
    /\ UNCHANGED <<ssh_connection, runState>>
    /\ UNCHANGED <<catalogState, archiveState, rerunState, sheetState, indexState>>

\* KeyboardInterrupt inside the try statement of main.  The model lets it
\* arrive between two phases or two items; what an interrupt in the middle of
\* a transfer leaves behind is what LocalStates and Init describe.
Interrupt ==
    /\ pc \in {"catalog", "snapshot", "build", "loop"}
    /\ pc' = "interrupted"
    /\ UNCHANGED <<ssh_connection, games_metadata, runState>>
    /\ UNCHANGED <<catalogState, archiveState, rerunState, sheetState, indexState>>

\* The ends of the try statement: the return of download_and_process_games
\* ("returned", "done"), sys.exit(1) ("exit1", and "interrupted" through
\* lines 1375-1377) and the exceptions nothing catches.
TryEnded == pc \in {"returned", "done", "exit1", "interrupted", "fatal",
                    "crashed", "orphan_error"}

\* lines 1378-1383: the finally clause.
MainFinally ==
    /\ TryEnded
    /\ ssh_connection' = IF scp_server /\ scp_path THEN "closed"
                         ELSE ssh_connection
    /\ pc' = "exited"
    /\ UNCHANGED <<games_metadata, runState>>
    /\ UNCHANGED <<catalogState, archiveState, rerunState, sheetState, indexState>>

\* A caller that goes on with the empty set when get_remote_folders raised.
AfterListing_Empty(ok) == "build"

\* lines 1045-1051: where download_and_process_games goes after the call of
\* get_remote_folders: on when it returned a set, to the return statement of
\* the except clause when it raised (non-zero exit of ls, or its timeout,
\* lines 708-715).
AfterListing(ok) == IF ok THEN "build" ELSE "returned"

\* lines 1045-1051: the snapshot is taken, or the listing fails and the run
\* returns.
GetRemoteFolders ==
    /\ pc = "snapshot"
    /\ \E ok \in BOOLEAN :
        IF ~Configured
        THEN /\ ok
             /\ remote_folders' = {}
             /\ snapshot0' = {}
             /\ pc' = "build"
        ELSE /\ IF ok
                THEN /\ remote_folders' =
                            ListChildDirectories(remote_final, remote_temp)
                     /\ snapshot0' =
                            ListChildDirectories(remote_final, remote_temp)
                ELSE UNCHANGED <<remote_folders, snapshot0>>
             /\ pc' = AfterListing(ok)
    /\ UNCHANGED <<catalogState, archiveState, rerunState, sheetState, indexState,
                 scp_server, scp_path, max_transfers, ssh_connection,
                   games_metadata, retrieve_ok, remote_final,
                   remote_temp, all_games_to_process, skipped_overrides, idx, game_data,
                   exists_on_remote, allow_transfers, should_process_metadata,
                   local, downloaded_file, upload_result, branch,
                   transfer_count, any_uploads_occurred,
                   processed_games_metadata, downloads_started, copies_started,
                   item_attempts, copy_ok, games_json, index_built,
                   orphaned_folders>>

\* A work list that keeps one entry per source: a name the sheets and an
\* override record both give is in it twice.
GamesDictValues_PerSource(S) == SetToSortedSeq(S) \o SetToSortedSeq(S)

\* lines 1082, 1096-1110 and 1113: games_dict[target_name] is assigned or
\* updated in place, and the work list is list(games_dict.values()): one
\* entry for each target name.
GamesDictValues(S) == SetToSortedSeq(S)

\* lines 1053-1113: games_dict is keyed by target name and holds the entries
\* of game_ids and the records of games_metadata whose override entry is not
\* marked skip.  (A record whose target is in neither plays no part in the
\* run; the model leaves such records out of the catalog.)  An override entry marked skip gets no record (lines 62-65)
\* and, unless game_ids names its target, no place in the work list.  An
\* identifier that is neither a URL nor known ends the run with sys.exit(1).
BuildWorkList ==
    /\ pc = "build"
    /\ \/ /\ \E S \in {T \in SUBSET Names : games_metadata \subseteq T} :
             \E K \in SUBSET (Names \ S) :
                /\ all_games_to_process' = GamesDictValues(S)
                /\ skipped_overrides' = K
          /\ pc' = "loop"
       \/ /\ UNCHANGED <<all_games_to_process, skipped_overrides>>
          /\ pc' = "exit1"
    /\ UNCHANGED <<catalogState, archiveState, rerunState, sheetState, indexState,
                 scp_server, scp_path, max_transfers, ssh_connection,
                   games_metadata, retrieve_ok, remote_final,
                   remote_temp, remote_folders, snapshot0, idx, game_data,
                   exists_on_remote, allow_transfers, should_process_metadata,
                   local, downloaded_file, upload_result, branch,
                   transfer_count, any_uploads_occurred,
                   processed_games_metadata, downloads_started, copies_started,
                   item_attempts, copy_ok, games_json, index_built,
                   orphaned_folders>>

\* The entries the work list can hold for target name n: in the second of
\* two runs over the same catalog, the entry the first run was given.
KnownEntries(n) ==
    IF n \in DOMAIN item_plan THEN {item_plan[n]} ELSE GameData(n)

\* lines 1116-1219 and 1238-1248: the next item is taken and decided, up to
\* the first download or upload it needs.
DecideItem ==
    /\ pc = "loop"
    /\ idx < Len(all_games_to_process)
    /\ \E g \in KnownEntries(all_games_to_process[idx + 1]) :
       \E l \in LocalStates(IsZip(g)) :
        LET n == g.target_name
            set == RemoteFoldersSet(remote_folders, remote_final, remote_temp)
            exists == FolderExistsOnRemote(n, set)
            allow == AllowTransfers(max_transfers, transfer_count)
        IN
        /\ g.record = (n \in games_metadata)
        /\ item_plan' = IF run = 1 THEN (n :> g) @@ item_plan ELSE item_plan
        /\ idx' = idx + 1
        /\ game_data' = g
        /\ exists_on_remote' = exists
        /\ remote_folders' = RemoveFromSnapshot(n, set)
        /\ downloaded_file' = "unset"
        /\ upload_result' = "none"
        /\ copy_ok' = FALSE
        /\ retrieve_ok' = FALSE
        /\ IF g.skip /\ ~exists
           THEN /\ branch' = "SKIPPED"
                /\ should_process_metadata' = FALSE
                /\ allow_transfers' = FALSE
                /\ local' = l
                /\ pc' = "mark"
           ELSE IF exists
           THEN /\ branch' = "ALREADY_REMOTE"
                /\ should_process_metadata' = TRUE
                /\ allow_transfers' = FALSE
                /\ local' = CleanCompletedRemote(g, l)
                /\ pc' = "mark"
           ELSE IF ~HasScummvmDownload(g)
           THEN /\ branch' = "MISSING_SOURCE"
                /\ should_process_metadata' = FALSE
                /\ allow_transfers' = FALSE
                /\ local' = l
                /\ pc' = "fatal"
           ELSE IF ExtractedFolderPresent(g, l)
           THEN /\ branch' = "local_folder"
                /\ should_process_metadata' = FALSE
                /\ allow_transfers' = allow
                /\ local' = l
                /\ pc' = IF allow THEN "upload_begin"
                          ELSE NotAllowedNext("local_folder")
           ELSE /\ branch' = "download"
                /\ should_process_metadata' = FALSE
                /\ allow_transfers' = allow
                /\ local' = IF allow THEN [l EXCEPT !.tmp = FALSE]
                            ELSE CleanTransfersNotAllowed([l EXCEPT !.tmp = FALSE])
                /\ pc' = IF allow THEN "download"
                          ELSE NotAllowedNext("download")
    /\ UNCHANGED <<catalogState, archiveState, run, transferred_before,
                 sheetState, indexState,
                 scp_server, scp_path, max_transfers, ssh_connection,
                   games_metadata,  remote_final,
                   remote_temp, snapshot0, all_games_to_process, skipped_overrides,
                   transfer_count, any_uploads_occurred,
                   processed_games_metadata, downloads_started, copies_started,
                   item_attempts, games_json, index_built, orphaned_folders>>

\* lines 1222-1227 and 583-598: a file already local is not fetched;
\* otherwise download_file is called.
Download ==
    /\ pc = "download"
    /\ IF local.file
       THEN /\ downloaded_file' = "path"
            /\ pc' = "downloaded"
            /\ UNCHANGED <<downloads_started, item_attempts>>
       ELSE /\ downloads_started' = downloads_started + 1
            /\ item_attempts' = [item_attempts EXCEPT !.download = @ + 1]
            /\ pc' = "urlretrieve"
            /\ UNCHANGED downloaded_file
    /\ UNCHANGED <<local, retrieve_ok, should_process_metadata>>
    /\ UNCHANGED <<catalogState, archiveState, rerunState, sheetState, indexState,
                 scp_server, scp_path, max_transfers, ssh_connection,
                   games_metadata, remote_final, remote_temp, remote_folders,
                   snapshot0, all_games_to_process, skipped_overrides, idx,
                   game_data, exists_on_remote, allow_transfers, upload_result,
                   branch, transfer_count, any_uploads_occurred,
                   processed_games_metadata, copies_started, copy_ok,
                   games_json, index_built, orphaned_folders>>

\* A download_file that renames whatever urlretrieve left.
AfterRetrieve_Unchecked(ok) == "download_rename"

\* Where download_file goes after urlretrieve: the rename when it returned,
\* the except clause when it raised.
AfterRetrieve(ok) == IF ok THEN "download_rename" ELSE "download_failed"

\* line 600: urlretrieve writes to <filename>.downloading; when it raises,
\* the temp file may or may not have been created.
UrlRetrieve ==
    /\ pc = "urlretrieve"
    /\ \E ok \in BOOLEAN :
        /\ retrieve_ok' = ok
        /\ pc' = AfterRetrieve(ok)
        /\ IF ok
           THEN local' = [local EXCEPT !.tmp = TRUE]
           ELSE \E t \in BOOLEAN : local' = [local EXCEPT !.tmp = t]
    /\ UNCHANGED <<downloaded_file, downloads_started, item_attempts,
                   should_process_metadata>>
    /\ UNCHANGED <<catalogState, archiveState, rerunState, sheetState, indexState,
                 scp_server, scp_path, max_transfers, ssh_connection,
                   games_metadata, remote_final, remote_temp, remote_folders,
                   snapshot0, all_games_to_process, skipped_overrides, idx,
                   game_data, exists_on_remote, allow_transfers, upload_result,
                   branch, transfer_count, any_uploads_occurred,
                   processed_games_metadata, copies_started, copy_ok,
                   games_json, index_built, orphaned_folders>>

\* lines 603-606: the rename to the final name; download_file returns the
\* path, or the rename raises.
DownloadRename ==
    /\ pc = "download_rename"
    /\ \E ok \in BOOLEAN :
        IF ok
        THEN /\ local' = [local EXCEPT !.file = local.tmp, !.tmp = FALSE]
             /\ downloaded_file' = "path"
             /\ pc' = "downloaded"
        ELSE /\ UNCHANGED <<local, downloaded_file>>
             /\ pc' = "download_failed"
    /\ UNCHANGED <<retrieve_ok, downloads_started, item_attempts,
                   should_process_metadata>>
    /\ UNCHANGED <<catalogState, archiveState, rerunState, sheetState, indexState,
                 scp_server, scp_path, max_transfers, ssh_connection,
                   games_metadata, remote_final, remote_temp, remote_folders,
                   snapshot0, all_games_to_process, skipped_overrides, idx,
                   game_data, exists_on_remote, allow_transfers, upload_result,
                   branch, transfer_count, any_uploads_occurred,
                   processed_games_metadata, copies_started, copy_ok,
                   games_json, index_built, orphaned_folders>>

\* lines 607-612: the except clause removes the temp file; the function ends
\* without return statement, so the call yields None.
DownloadFailed ==
    /\ pc = "download_failed"
    /\ local' = [local EXCEPT !.tmp = FALSE]
    /\ downloaded_file' = "None"
    /\ pc' = "downloaded"
    /\ UNCHANGED <<retrieve_ok, downloads_started, item_attempts,
                   should_process_metadata>>
    /\ UNCHANGED <<catalogState, archiveState, rerunState, sheetState, indexState,
                 scp_server, scp_path, max_transfers, ssh_connection,
                   games_metadata, remote_final, remote_temp, remote_folders,
                   snapshot0, all_games_to_process, skipped_overrides, idx,
                   game_data, exists_on_remote, allow_transfers, upload_result,
                   branch, transfer_count, any_uploads_occurred,
                   processed_games_metadata, copies_started, copy_ok,
                   games_json, index_built, orphaned_folders>>

\* lines 1229-1237: an archive goes to extract_zip; anything else is marked
\* for the processed list as it is.
AfterDownload ==
    /\ pc = "downloaded"
    /\ IF IsZip(game_data)
       THEN /\ pc' = "extract"
            /\ UNCHANGED should_process_metadata
       ELSE /\ pc' = "mark"
            /\ should_process_metadata' = TRUE
    /\ UNCHANGED <<local, downloaded_file, retrieve_ok, downloads_started,
                   item_attempts>>
    /\ UNCHANGED <<catalogState, archiveState, rerunState, sheetState, indexState,
                 scp_server, scp_path, max_transfers, ssh_connection,
                   games_metadata, remote_final, remote_temp, remote_folders,
                   snapshot0, all_games_to_process, skipped_overrides, idx,
                   game_data, exists_on_remote, allow_transfers, upload_result,
                   branch, transfer_count, any_uploads_occurred,
                   processed_games_metadata, copies_started, copy_ok,
                   games_json, index_built, orphaned_folders>>

\* lines 1230-1231 and extract_zip: Path(None) raises, and nothing catches it.
Extract ==
    /\ pc = "extract"
    /\ IF downloaded_file = "None"
       THEN /\ pc' = "crashed"
            /\ UNCHANGED local
       ELSE /\ local' = ExtractZip(local)
            /\ pc' = "upload_begin"
    /\ UNCHANGED <<catalogState, archiveState, rerunState, sheetState, indexState,
                 scp_server, scp_path, max_transfers, ssh_connection,
                   games_metadata, retrieve_ok, remote_final,
                   remote_temp, remote_folders, snapshot0,
                   all_games_to_process, skipped_overrides, idx, game_data, exists_on_remote,
                   allow_transfers, should_process_metadata, downloaded_file,
                   upload_result, branch, transfer_count, any_uploads_occurred,
                   processed_games_metadata, downloads_started, copies_started,
                   item_attempts, copy_ok, games_json, index_built,
                   orphaned_folders>>

----------------------------------------------------------------------------
\* upload_folder, one action per remote command

\* lines 770-792: without server or path nothing is uploaded; otherwise a
\* stale <name>.uploading is removed first.
UploadCleanStale ==
    /\ pc = "upload_begin"
    /\ LET n == game_data.target_name IN
       IF ~Configured
       THEN /\ upload_result' = "False"
            /\ pc' = "after_upload"
            /\ UNCHANGED remote_temp
       ELSE /\ remote_temp' = [remote_temp EXCEPT ![n] = "absent"]
            /\ pc' = "upload_copy"
            /\ UNCHANGED upload_result
    /\ UNCHANGED <<catalogState, archiveState, rerunState, sheetState, indexState,
                 scp_server, scp_path, max_transfers, ssh_connection,
                   games_metadata, retrieve_ok, remote_final,
                   remote_folders, snapshot0, all_games_to_process, skipped_overrides, idx,
                   game_data, exists_on_remote, allow_transfers,
                   should_process_metadata, local, downloaded_file, branch,
                   transfer_count, any_uploads_occurred,
                   processed_games_metadata, downloads_started, copies_started,
                   item_attempts, copy_ok, games_json, index_built,
                   orphaned_folders>>

\* scp -r run with check=False: the rename follows whatever scp returned.
AfterCopy_Unchecked(ok) == "upload_move"

\* Where upload_folder goes after scp -r returned: the rename when it exited 0,
\* the except clause otherwise (check=True raises CalledProcessError).
AfterCopy(ok) == IF ok THEN "upload_move" ELSE "upload_failed"

\* lines 794-809: scp -r of the local folder to <name>.uploading.
UploadCopy ==
    /\ pc = "upload_copy"
    /\ LET n == game_data.target_name IN
       /\ copies_started' = copies_started + 1
       /\ item_attempts' = [item_attempts EXCEPT !.copy = @ + 1]
       /\ \E ok \in BOOLEAN :
            /\ copy_ok' = ok
            /\ pc' = AfterCopy(ok)
            /\ IF ok
               THEN remote_temp' = [remote_temp EXCEPT ![n] = local.folder]
               ELSE \E c \in {"absent", "copying"} :
                        remote_temp' = [remote_temp EXCEPT ![n] = c]
    /\ UNCHANGED <<catalogState, archiveState, rerunState, sheetState, indexState,
                 scp_server, scp_path, max_transfers, ssh_connection,
                   games_metadata, retrieve_ok, remote_final,
                   remote_folders, snapshot0, all_games_to_process, skipped_overrides, idx,
                   game_data, exists_on_remote, allow_transfers,
                   should_process_metadata, local, downloaded_file,
                   upload_result, branch, transfer_count, any_uploads_occurred,
                   processed_games_metadata, downloads_started, games_json,
                   index_built, orphaned_folders>>

\* lines 811-823: mv <name>.uploading <name>.
UploadMove ==
    /\ pc = "upload_move"
    /\ LET n == game_data.target_name IN
       /\ item_attempts' = [item_attempts EXCEPT !.rename = @ + 1]
       /\ \E ok \in BOOLEAN :
            IF ok
            THEN /\ remote_final' = [remote_final EXCEPT ![n] = remote_temp[n]]
                 /\ remote_temp' = [remote_temp EXCEPT ![n] = "absent"]
                 /\ upload_result' = "True"
                 /\ pc' = "after_upload"
            ELSE /\ UNCHANGED <<remote_final, remote_temp, upload_result>>
                 /\ pc' = "upload_failed"
    /\ UNCHANGED <<catalogState, archiveState, rerunState, sheetState, indexState,
                 scp_server, scp_path, max_transfers, ssh_connection,
                   games_metadata, retrieve_ok, remote_folders,
                   snapshot0, all_games_to_process, skipped_overrides, idx, game_data,
                   exists_on_remote, allow_transfers, should_process_metadata,
                   local, downloaded_file, branch, transfer_count,
                   any_uploads_occurred, processed_games_metadata,
                   downloads_started, copies_started, copy_ok, games_json,
                   index_built, orphaned_folders>>

\* An except clause that returns False without the rm -rf.
FailedUploadTemp_Kept(c) == c

\* What the except clause leaves at <name>.uploading (rm -rf).
FailedUploadTemp(c) == "absent"

\* An except clause that starts the upload over.
AfterUploadFailed_Retry == "upload_begin"

\* lines 825-839: the except clause of upload_folder ends the call; control
\* is back in the loop body, after the call.
AfterUploadFailed == "after_upload"

\* lines 825-839: the except clause removes <name>.uploading and returns False.
UploadFailed ==
    /\ pc = "upload_failed"
    /\ LET n == game_data.target_name IN
       remote_temp' = [remote_temp EXCEPT ![n] = FailedUploadTemp(@)]
    /\ upload_result' = "False"
    /\ pc' = AfterUploadFailed
    /\ UNCHANGED <<catalogState, archiveState, rerunState, sheetState, indexState,
                 scp_server, scp_path, max_transfers, ssh_connection,
                   games_metadata, retrieve_ok, remote_final,
                   remote_folders, snapshot0, all_games_to_process, skipped_overrides, idx,
                   game_data, exists_on_remote, allow_transfers,
                   should_process_metadata, local, downloaded_file, branch,
                   transfer_count, any_uploads_occurred,
                   processed_games_metadata, downloads_started, copies_started,
                   item_attempts, copy_ok, games_json, index_built,
                   orphaned_folders>>

----------------------------------------------------------------------------
\* The rest of the loop body and the phases after the loop

\* A loop body that counts every call of upload_folder.
CountsAsTransfer_Any(result) == TRUE

\* lines 1200 and 1233: the condition of transfer_count += 1 is the value
\* upload_folder returned.
CountsAsTransfer(result) == result = "True"

\* lines 1200-1210 and 1233-1237: a successful upload counts as a transfer;
\* the item is marked for the processed list whatever upload_folder returned;
\* only the path that found the extracted folder removes it.
AfterUpload ==
    /\ pc = "after_upload"
    /\ IF CountsAsTransfer(upload_result)
       THEN /\ transfer_count' = transfer_count + 1
            /\ any_uploads_occurred' = TRUE
       ELSE UNCHANGED <<transfer_count, any_uploads_occurred>>
    /\ should_process_metadata' = TRUE
    /\ local' = IF branch = "local_folder" THEN RemoveLocalFolder(local)
                ELSE local
    /\ pc' = "mark"
    /\ UNCHANGED <<catalogState, archiveState, rerunState, sheetState, indexState,
                 scp_server, scp_path, max_transfers, ssh_connection,
                   games_metadata, retrieve_ok, remote_final,
                   remote_temp, remote_folders, snapshot0,
                   all_games_to_process, skipped_overrides, idx, game_data, exists_on_remote,
                   allow_transfers, downloaded_file, upload_result, branch,
                   processed_games_metadata, downloads_started, copies_started,
                   item_attempts, copy_ok, games_json, index_built,
                   orphaned_folders>>

\* lines 1250-1262: the end of the loop body.  The iteration's locals are
\* dead afterwards (lines 1118-1121 set them afresh), and the model stops
\* tracking the local paths of the item.
MarkProcessed ==
    /\ pc = "mark"
    /\ processed_games_metadata' =
           AppendProcessed(should_process_metadata, game_data,
                           processed_games_metadata)
    /\ games_metadata' =
           GamesMetadataAfterLookup(games_metadata, game_data.target_name)
    /\ pc' = "loop"
    /\ game_data' = NoItem
    /\ exists_on_remote' = FALSE
    /\ allow_transfers' = FALSE
    /\ should_process_metadata' = FALSE
    /\ local' = NoLocal
    /\ downloaded_file' = "unset"
    /\ upload_result' = "none"
    /\ branch' = "none"
    /\ copy_ok' = FALSE
    /\ retrieve_ok' = FALSE
    /\ item_attempts' = NoAttempts
    /\ transferred_before' =
           IF run = 1 /\ item_attempts # NoAttempts
           THEN transferred_before \cup {game_data.target_name}
           ELSE transferred_before
    /\ UNCHANGED <<catalogState, archiveState, run, item_plan,
                 sheetState, indexState,
                 scp_server, scp_path, max_transfers, ssh_connection,
                     remote_final,
                   remote_temp, remote_folders, snapshot0,
                   all_games_to_process, skipped_overrides, idx, transfer_count,
                   any_uploads_occurred, downloads_started, copies_started,
                   games_json, index_built, orphaned_folders>>

\* The names the orphan error reports: what is left of the snapshot.
OrphanedFolders(set) == set

\* lines 1264-1270
CheckOrphans ==
    /\ pc = "loop"
    /\ idx = Len(all_games_to_process)
    /\ IF remote_folders # {}
       THEN /\ orphaned_folders' = OrphanedFolders(remote_folders)
            /\ pc' = "orphan_error"
       ELSE /\ UNCHANGED orphaned_folders
            /\ pc' = "export"
    /\ UNCHANGED <<catalogState, archiveState, rerunState, sheetState, indexState,
                 scp_server, scp_path, max_transfers, ssh_connection,
                   games_metadata, retrieve_ok, remote_final,
                   remote_temp, remote_folders, snapshot0,
                   all_games_to_process, skipped_overrides, idx, game_data, exists_on_remote,
                   allow_transfers, should_process_metadata, local,
                   downloaded_file, upload_result, branch, transfer_count,
                   any_uploads_occurred, processed_games_metadata,
                   downloads_started, copies_started, item_attempts, copy_ok,
                   games_json, index_built>>

\* lines 1272-1276 and generate_processed_games_json.  The ids of the records
\* are read here for the first time, and the model draws them here.
Export ==
    /\ pc = "export"
    /\ IF processed_games_metadata # <<>>
       THEN LET e == ExportedRecords(processed_games_metadata, games_metadata)
            IN \E ids \in [SeqRange(e) -> Ids] :
                 games_json' =
                     <<SortedById([i \in 1..Len(e) |-> Record(e[i], ids)])>>
       ELSE UNCHANGED games_json
    /\ pc' = "index"
    /\ UNCHANGED <<catalogState, archiveState, rerunState, sheetState, indexState,
                 scp_server, scp_path, max_transfers, ssh_connection,
                   games_metadata, retrieve_ok, remote_final,
                   remote_temp, remote_folders, snapshot0,
                   all_games_to_process, skipped_overrides, idx, game_data, exists_on_remote,
                   allow_transfers, should_process_metadata, local,
                   downloaded_file, upload_result, branch, transfer_count,
                   any_uploads_occurred, processed_games_metadata,
                   downloads_started, copies_started, item_attempts, copy_ok,
                   index_built, orphaned_folders>>

\* lines 1278-1280
BuildHttpIndex ==
    /\ pc = "index"
    /\ index_built' = TRUE
    /\ pc' = "done"
    /\ UNCHANGED <<catalogState, archiveState, rerunState, sheetState, indexState,
                 scp_server, scp_path, max_transfers, ssh_connection,
                   games_metadata, retrieve_ok, remote_final,
                   remote_temp, remote_folders, snapshot0,
                   all_games_to_process, skipped_overrides, idx, game_data, exists_on_remote,
                   allow_transfers, should_process_metadata, local,
                   downloaded_file, upload_result, branch, transfer_count,
                   any_uploads_occurred, processed_games_metadata,
                   downloads_started, copies_started, item_attempts, copy_ok,
                   games_json, orphaned_folders>>

Next ==
    \/ OpenSshConnection
    \/ LoadCatalog
    \/ Interrupt
    \/ MainFinally
    \/ GetRemoteFolders
    \/ BuildWorkList
    \/ DecideItem
    \/ Download
    \/ UrlRetrieve
    \/ DownloadRename
    \/ DownloadFailed
    \/ AfterDownload
    \/ Extract
    \/ UploadCleanStale
    \/ UploadCopy
    \/ UploadMove
    \/ UploadFailed
    \/ AfterUpload
    \/ MarkProcessed
    \/ CheckOrphans
    \/ Export
    \/ BuildHttpIndex

Spec == Init /\ [][Next]_vars

----------------------------------------------------------------------------
\* Vocabulary of the properties, stated on the inputs rather than on what the
\* code computes from them

Current == game_data.target_name

Deciding == game_data # NoItem

\* The item's target name was a child directory of the remote path when the
\* run took its snapshot.
InSnapshot0 == Deciding /\ Current \in snapshot0

\* The entry carries a URL the code can download from.
UsableSourceUrl(g) ==
    \/ g.url = "frs"
    \/ g.url = "none" /\ g.download_url \in {"rel_frs", "abs_frs"}

NeedsTransfer == Deciding /\ UsableSourceUrl(game_data) /\ ~game_data.skip
                     /\ Current \notin snapshot0

BudgetReached == \E m \in max_transfers : transfer_count >= m

\* The run got past the loop.
AllDecided == pc \in {"orphan_error", "export", "index", "done"}

----------------------------------------------------------------------------
\* C1 (atomic upload): the final remote name of every target is absent or
\* holds a complete copy of the folder that was uploaded, never a partial
\* copy; it changes only by the rename of <name>.uploading, and the rename is
\* issued only after the scp to <name>.uploading exited 0.
C1_AtomicUpload ==
    /\ [](\A n \in Names : remote_final[n] # "copying")
    /\ [][\A n \in Names :
            remote_final'[n] # remote_final[n] =>
                /\ pc = "upload_move"
                /\ n = Current
                /\ copy_ok
                /\ remote_final[n] = "absent"
                /\ remote_temp[n] = local.folder
                /\ remote_final'[n] = local.folder]_vars
    /\ [](pc = "upload_move" => copy_ok /\ item_attempts.copy = 1)

C1_Witness ==
    /\ pc = "after_upload"
    /\ upload_result = "True"
    /\ remote_final[Current] = "full"
    /\ Current \notin snapshot0

\* C2: when the scp or the rename of an upload fails, upload_folder returns
\* False (no exception ends the run), the final remote name is absent and
\* <name>.uploading has been removed.
C2_FailedUploadCleansUp ==
    /\ (pc = "after_upload" /\ item_attempts.copy > 0 /\ upload_result # "True") =>
            /\ upload_result = "False"
            /\ remote_final[Current] = "absent"
            /\ remote_temp[Current] = "absent"
    /\ (pc = "upload_failed" => remote_final[Current] = "absent")
    /\ (pc \in {"crashed", "fatal"} => item_attempts.copy = 0)

C2_Witness ==
    /\ pc = "after_upload"
    /\ upload_result = "False"
    /\ item_attempts.copy = 1
    /\ item_attempts.rename = 1
    /\ copy_ok

C4_AlreadyRemoteNoTransfer ==
    InSnapshot0 =>
        /\ item_attempts = NoAttempts
        /\ pc = "mark"
        /\ branch = "ALREADY_REMOTE"

C4_Witness ==
    /\ InSnapshot0
    /\ game_data.skip
    /\ UsableSourceUrl(game_data)
    /\ pc = "mark"

\* C5: every catalog entry whose target is on the mirror is appended to the
\* processed list, marked skip or not: an item of the work list that has a
\* record when its iteration ends, and an override entry marked skip by the
\* time the run got past the loop.
C5_RemoteItemsProcessed ==
    /\ [][(pc = "mark" /\ InSnapshot0 /\ game_data.record) =>
            processed_games_metadata' =
                Append(processed_games_metadata, Current)]_vars
    /\ [](AllDecided =>
            \A n \in skipped_overrides \cap snapshot0 :
                n \in SeqRange(processed_games_metadata))

\* C6: an item marked skip whose target is not in the snapshot starts no
\* download and no upload, is not appended to the processed list, and the run
\* goes on with the next item.
C6_SkippedUntouched ==
    /\ []((Deciding /\ game_data.skip /\ Current \notin snapshot0) =>
            /\ pc = "mark"
            /\ branch = "SKIPPED"
            /\ item_attempts = NoAttempts
            /\ Current \notin SeqRange(processed_games_metadata))
    /\ [][(pc = "mark" /\ game_data.skip /\ Current \notin snapshot0) =>
            /\ processed_games_metadata' = processed_games_metadata
            /\ pc' = "loop"
            /\ UNCHANGED <<downloads_started, copies_started, remote_final,
                           remote_temp>>]_vars

C6_Witness ==
    /\ pc = "mark"
    /\ game_data.skip
    /\ Current \notin snapshot0
    /\ UsableSourceUrl(game_data)
    /\ game_data.record
    /\ idx < Len(all_games_to_process)

\* C7: an item with a usable source URL that is neither on the remote nor
\* marked skip is never treated as missing its source, and, while the budget
\* allows and no transfer fails, it is uploaded to the mirror before it is
\* marked processed.
C7_UploadNeeded ==
    /\ (NeedsTransfer => pc # "fatal")
    /\ (pc = "mark" /\ NeedsTransfer /\ ~BudgetReached
            /\ downloaded_file # "None" /\ upload_result # "False" /\ Configured) =>
            /\ should_process_metadata
            /\ upload_result = "True"
            /\ remote_final[Current] # "absent"

\* C8: an item without usable source URL that is neither on the remote nor
\* marked skip ends the run at that item: nothing was transferred for it, no
\* step of the run follows (only the finally clause of main), no orphan is
\* reported and neither games.json nor the index is written.
C8_MissingSourceAborts ==
    /\ []((Deciding /\ ~UsableSourceUrl(game_data) /\ ~game_data.skip
                /\ Current \notin snapshot0) =>
            /\ pc \in {"fatal", "exited"}
            /\ item_attempts = NoAttempts
            /\ orphaned_folders = {}
            /\ games_json = <<>>
            /\ ~index_built)
    /\ [][pc = "fatal" =>
            /\ pc' = "exited"
            /\ UNCHANGED <<games_metadata, runState>>]_vars

C8_Witness ==
    /\ pc = "fatal"
    /\ idx = 1
    /\ Len(all_games_to_process) = 2
    /\ snapshot0 # {}
    /\ game_data.record

\* C9 (transfer budget): with --max-transfers N, neither the downloads nor
\* the upload copies started in the run exceed N.
C9_TransferBudget ==
    \A m \in max_transfers :
        /\ downloads_started <= m
        /\ copies_started <= m

\* C10: an item that needs transfer when the budget is reached is not marked
\* for the processed list, whatever of it is in local storage.
C10_BudgetExcludesItem ==
    [][(pc = "mark" /\ NeedsTransfer /\ BudgetReached) =>
        processed_games_metadata' = processed_games_metadata]_vars

\* C11: once an item that needs transfer has been decided with the budget
\* already reached (no upload of this item raised the count), nothing of it
\* is left in the download directory: no <file>.downloading, no downloaded
\* file or archive, no extracted folder.
C11_BudgetSkipLeavesNothing ==
    (pc = "mark" /\ NeedsTransfer /\ BudgetReached /\ upload_result # "True") =>
        local = NoLocal

\* C12: reaching the transfer budget does not end the run.  With the budget
\* reached no item is downloaded, extracted or uploaded and the run does not
\* crash; the loop takes the next item of the work list, in order, and brings
\* it to the end of the loop body (or to the missing-source error, which no
\* budget causes); an item on the remote is still marked for the processed
\* list and a skipped item is still skipped; after the last item the orphan
\* check is made, and without orphan the export and the index phases follow.
C12_BudgetDoesNotBlock ==
    /\ [](BudgetReached =>
            /\ pc \notin {"download", "extract", "upload_begin", "upload_copy",
                          "upload_move", "upload_failed", "crashed",
                          "urlretrieve", "download_rename",
                          "download_failed", "downloaded"}
            /\ (Deciding => Current = all_games_to_process[idx])
            /\ (InSnapshot0 /\ pc = "mark" => should_process_metadata)
            /\ (Deciding /\ game_data.skip /\ Current \notin snapshot0 =>
                    branch = "SKIPPED" /\ ~should_process_metadata)
            /\ (pc = "loop" => ENABLED (DecideItem \/ CheckOrphans))
            /\ (pc = "after_upload" => ENABLED AfterUpload)
            /\ (pc = "mark" => ENABLED MarkProcessed)
            /\ (pc = "export" => ENABLED Export)
            /\ (pc = "index" => ENABLED BuildHttpIndex))
    /\ [][(BudgetReached /\ pc = "loop") =>
            \/ pc' = "interrupted"
            \/ /\ idx < Len(all_games_to_process)
               /\ idx' = idx + 1
               /\ game_data'.target_name = all_games_to_process[idx + 1]
               /\ pc' \in {"mark", "after_upload", "fatal"}
               /\ (pc' = "fatal" => ~UsableSourceUrl(game_data'))
            \/ /\ idx = Len(all_games_to_process)
               /\ pc' = IF snapshot0 \subseteq SeqRange(all_games_to_process)
                        THEN "export" ELSE "orphan_error"]_vars
    /\ [][(BudgetReached /\ pc \in {"after_upload", "mark", "export", "index"}) =>
            \/ pc' = "interrupted"
            \/ pc' = CASE pc = "after_upload" -> "mark"
                       [] pc = "mark" -> "loop"
                       [] pc = "export" -> "index"
                       [] pc = "index" -> "done"]_vars

C12_Witness ==
    /\ pc = "done"
    /\ max_transfers = {1}
    /\ transfer_count = 1
    /\ Len(all_games_to_process) = 2
    /\ Len(processed_games_metadata) = 1
    /\ index_built

\* C13 (atomic download): while download_file transfers, the final name does
\* not exist and only <name>.downloading is written; the rename is reached
\* only after urlretrieve returned, and the final name of a fetched file
\* exists only through it; after a failure of urlretrieve or of the rename
\* the temp file is removed, the final name is absent and the call has
\* returned None (the run is at the statement after the call).
C13_AtomicDownload ==
    /\ (pc = "urlretrieve" => ~local.file /\ ~local.tmp)
    /\ (pc = "download_rename" => retrieve_ok /\ local.tmp /\ ~local.file)
    /\ (pc = "download_failed" => ~local.file /\ downloaded_file = "unset")
    /\ (item_attempts.download > 0 /\ local.file =>
            retrieve_ok /\ downloaded_file = "path" /\ ~local.tmp)
    /\ (pc = "downloaded" /\ item_attempts.download > 0 =>
            \/ downloaded_file = "path" /\ local.file /\ ~local.tmp
                  /\ retrieve_ok
            \/ downloaded_file = "None" /\ ~local.file /\ ~local.tmp)

C13_Witness ==
    /\ pc = "downloaded"
    /\ item_attempts.download = 1
    /\ downloaded_file = "None"
    /\ retrieve_ok

\* C14: after a download of an item failed, the run does not end with an
\* uncaught exception: the item is neither extracted nor uploaded, nothing of
\* it is left in the download directory, and the loop body is brought to its
\* end so that the next item is taken; for archives and other files alike.
C14_FailedDownloadGoesOn ==
    /\ pc # "crashed"
    /\ (Deciding /\ downloaded_file = "None" =>
            /\ pc \in {"downloaded", "extract", "mark"}
            /\ item_attempts.copy = 0
            /\ local = NoLocal)

\* C15 (crash recovery): whatever an interrupted earlier run left in the
\* download directory or on the mirror, the folder a run moves to the final
\* remote name of an item holds every file of the item's archive.
C15_NoIncompleteUpload ==
    \A n \in Names : remote_final[n] \in {"absent", "full"}

\* C16 (session lifecycle): when the program has ended after the persistent
\* session was opened, the close of the session has been issued, whatever
\* server and path are configured and however the run ended.
C16_SessionClosedOnExit ==
    pc = "exited" => ssh_connection # "open"

\* The target names of the items taken from the work list so far.
DecidedNames == {all_games_to_process[i] : i \in 1..idx}

\* C17: the snapshot of the remote directory is taken once, before any item
\* is decided, and never fetched again: from then on it is the first
\* snapshot less the target names of the items decided so far, whatever the
\* run has changed on the mirror meanwhile.
C17_SnapshotOnlyShrinks ==
    /\ (pc \in {"open_ssh", "open_failed", "catalog", "snapshot"} =>
            remote_folders = {} /\ snapshot0 = {} /\ idx = 0)
    /\ remote_folders = snapshot0 \ DecidedNames
    /\ (Deciding => Current = all_games_to_process[idx])

C17_Witness ==
    /\ pc = "mark"
    /\ idx = 2
    /\ transfer_count = 1
    /\ Current \in snapshot0
    /\ remote_folders # {}
    /\ remote_folders # ListChildDirectories(remote_final, remote_temp)
                             \ DecidedNames

\* C18: from the snapshot to the end of download_and_process_games the
\* catalog stays as the catalog builders left it; the processed list changes
\* only by one record of the catalog being appended to it.
C18_CatalogUnchanged ==
    [][pc \notin {"open_ssh", "catalog"} =>
        /\ games_metadata' = games_metadata
        /\ \/ processed_games_metadata' = processed_games_metadata
           \/ /\ pc = "mark"
              /\ Current \in games_metadata
              /\ processed_games_metadata' =
                     Append(processed_games_metadata, Current)]_vars

C18_Witness ==
    /\ pc = "export"
    /\ Len(processed_games_metadata) = 1
    /\ Cardinality(games_metadata) = 2
    /\ transfer_count = 1

\* The run is past the export phase.
Exported == pc \in {"index", "done"}

\* The relative_path values of the document written.
ExportedPaths == {games_json[1][i].relative_path : i \in 1..Len(games_json[1])}

\* C19: games.json is written in the export phase and only there, and it is
\* written exactly when the processed list of the run is not empty; what is
\* written are the records appended to the processed list in this run, one
\* entry each, and no other record of the catalog.
C19_ExportOnlyProcessed ==
    /\ (pc \notin {"index", "done", "exited"} => games_json = <<>>)
    /\ (Exported => (games_json # <<>> <=> processed_games_metadata # <<>>))
    /\ (Exported /\ games_json # <<>> =>
            /\ Len(games_json[1]) = Len(processed_games_metadata)
            /\ ExportedPaths = SeqRange(processed_games_metadata)
            /\ ExportedPaths \subseteq games_metadata)

C19_Witness ==
    /\ pc = "index"
    /\ games_json # <<>>
    /\ Len(games_json[1]) = 1
    /\ Cardinality(games_metadata) = 2
    /\ transfer_count = 1

\* Rank of an id when case is ignored: "a" before "B" and "b".
LetterRank(id) == IF id = 2 THEN 1 ELSE 2

\* C20: the sequence written to games.json is sorted by id with case ignored,
\* and no two of its records have the same relative_path.
C20_ExportSortedNoDuplicates ==
    games_json # <<>> =>
        LET s == games_json[1] IN
        \A i, j \in 1..Len(s) :
            i < j => /\ LetterRank(s[i].id) <= LetterRank(s[j].id)
                     /\ s[i].relative_path # s[j].relative_path

C20_Witness ==
    /\ pc = "done"
    /\ games_json # <<>>
    /\ Len(games_json[1]) = 2
    /\ games_json[1][1].relative_path = 2
    /\ games_json[1][1].id = 2
    /\ games_json[1][2].id = 1

\* C28: when the upload of an item succeeded, nothing of the item is left in
\* the download directory by the time it is marked processed: neither the
\* extracted folder nor the archive, whether the folder was found local or
\* was downloaded and extracted in this run.
C28_LocalCopyRemovedAfterUpload ==
    (pc = "mark" /\ upload_result = "True") =>
        local.folder = "absent" /\ ~local.file

----------------------------------------------------------------------------
\* Building the catalog: the three spreadsheet loaders, then the overrides

\* Every variable of the run but pc.
mainState == <<ssh_connection, games_metadata, runState>>

\* The run before download_and_process_games has started.
RunIdle ==
    /\ max_transfers = {}
    /\ ssh_connection = "not_opened"
    /\ games_metadata = {}
    /\ remote_final = [n \in Names |-> "absent"]
    /\ remote_temp = [n \in Names |-> "absent"]
    /\ remote_folders = {}
    /\ snapshot0 = {}
    /\ all_games_to_process = <<>>
    /\ skipped_overrides = {}
    /\ idx = 0
    /\ game_data = NoItem
    /\ exists_on_remote = FALSE
    /\ allow_transfers = FALSE
    /\ should_process_metadata = FALSE
    /\ local = NoLocal
    /\ downloaded_file = "unset"
    /\ upload_result = "none"
    /\ branch = "none"
    /\ transfer_count = 0
    /\ any_uploads_occurred = FALSE
    /\ processed_games_metadata = <<>>
    /\ downloads_started = 0
    /\ copies_started = 0
    /\ item_attempts = NoAttempts
    /\ copy_ok = FALSE
    /\ retrieve_ok = FALSE
    /\ games_json = <<>>
    /\ index_built = FALSE
    /\ orphaned_folders = {}

\* The state of the run before main has started.
MainIdle ==
    /\ scp_server = FALSE
    /\ scp_path = FALSE
    /\ RunIdle

\* Language cells of the rows the catalog is built from.
SheetCells ==
    {NoCells, [NoCells EXCEPT !["lang"] = "en", !["language"] = "de"]}

GameDownloadsRows ==
    [sheet : {"game_downloads"}, id : GameIds, url : SheetUrls,
     text : {"Full Game", "SLUDGE engine game.", "Addon Pack"},
     category : {"games", "extras"}, platform : {"dos"},
     cells : {NoCells}]

DemosRows ==
    [sheet : {"game_demos"}, id : GameIds, url : SheetUrls,
     text : {"Tech"}, category : {""}, platform : {"", "dos"},
     cells : SheetCells]

DirectorDemosRows ==
    [sheet : {"director_demos"}, id : GameIds, url : SheetUrls,
     text : {"Tech", "Rolling"}, category : {""}, platform : {""},
     cells : {NoCells}]

\* main reads the sheets in this order.
SheetRank(sheet) ==
    CASE sheet = "none" -> 0
      [] sheet = "game_downloads" -> 1
      [] sheet = "game_demos" -> 2
      [] sheet = "director_demos" -> 3

\* 'addon' in name.lower() or 'manuals' in name.lower() or category != 'games'
SkippedAsAddon(download) ==
    download.text = "Addon Pack" \/ download.category # "games"

\* The description get_game_downloads takes from the name column.
DownloadDescription(game_name) ==
    IF game_name = "SLUDGE engine game." THEN <<"Freeware">>
    ELSE <<game_name>>

\* f"{platform_name} {category} Demo".strip()
DemoDescription(platform_name, category) ==
    IF platform_name = "" THEN <<category, "Demo">>
    ELSE <<platform_name, category, "Demo">>

InCompatibleGameIds_Any(game_id, compatible) == TRUE

\* game_id in self.compatible_game_ids
InCompatibleGameIds(game_id, compatible) == game_id \in compatible

\* The keys of self.games a row is stored under (the file name stands for
\* the "/<file name>" the code appends).
GamesKeys(game_id, url) ==
    {<<game_id, "">>, <<ShortName(game_id), "">>,
     <<game_id, FilenameFromUrl(url)>>,
     <<ShortName(game_id), FilenameFromUrl(url)>>}

\* One iteration of a loader's loop over the rows of its sheet.
ReadRow(download, skipped, list_url, record_url, description) ==
    /\ SheetRank(last_call.row.sheet) <= SheetRank(download.sheet)
    /\ pc' = IF pc = "row1" THEN "row2" ELSE "override"
    /\ records_before' = games_metadata_records
    /\ last_call' = [NoCall EXCEPT !.kind = "row", !.row = download]
    /\ IF skipped
          \/ ~InCompatibleGameIds(download.id, compatible_game_ids)
       THEN UNCHANGED <<games, all_download_urls, games_metadata_records>>
       ELSE /\ all_download_urls' = Append(all_download_urls, list_url)
            /\ games' =
                   LET keys == GamesKeys(download.id, download.url)
                   IN [k \in DOMAIN games \cup keys |->
                           IF k \in keys THEN list_url ELSE games[k]]
            /\ games_metadata_records' =
                   AddOrUpdateGameMetadata(
                       games_metadata_records, {download.id},
                       GetRelativePath(download.url), {description},
                       {record_url}, ExtractLanguages(download.cells),
                       {PlatformName(download.platform)}, NoEntry)
    /\ UNCHANGED <<compatible_game_ids, archiveState, mainState, rerunState, sheetState, indexState>>

GetGameDownloadsRow ==
    /\ pc \in {"row1", "row2"}
    /\ \E download \in GameDownloadsRows :
        ReadRow(download, SkippedAsAddon(download),
                [prefix |-> "/frs/extras/", url |-> download.url],
                [prefix |-> "https://downloads.scummvm.org/frs/extras/",
                 url |-> download.url],
                DownloadDescription(download.text))

GetDemosRowOf(download) ==
    ReadRow(download, FALSE,
            [prefix |-> "", url |-> download.url],
            [prefix |-> "", url |-> download.url],
            DemoDescription(PlatformName(download.platform), download.text))

GetDemosRow ==
    /\ pc \in {"row1", "row2"}
    /\ \E download \in DemosRows : GetDemosRowOf(download)

GetDirectorDemosRow ==
    /\ pc \in {"row1", "row2"}
    /\ \E download \in DirectorDemosRows :
        ReadRow(download, FALSE,
                [prefix |-> "", url |-> download.url],
                [prefix |-> "", url |-> download.url],
                DemoDescription(PlatformName(download.platform),
                                download.text))

\* Entries of metadata.json.
MetadataEntries ==
    [id : {{}} \cup {{g} : g \in GameIds},
     skip : {{}, {TRUE}},
     description : {{}, {<<"Curated">>}},
     platform : {{}, {"Amiga"}},
     relative_path : {{}, {"y"}}]

\* _load_and_apply_metadata applies one entry of metadata.json.
LoadAndApplyMetadata ==
    /\ pc = "override"
    /\ \E relative_path \in RelativePaths, metadata_entry \in MetadataEntries :
           /\ last_call' = [NoCall EXCEPT !.kind = "override",
                                           !.relative_path = relative_path,
                                           !.entry = metadata_entry]
           /\ games_metadata_records' =
                  ApplyMetadataEntry(games_metadata_records, relative_path,
                                     metadata_entry)
    /\ records_before' = games_metadata_records
    /\ pc' = "reapply"
    /\ UNCHANGED <<compatible_game_ids, games, all_download_urls,
                   archiveState, mainState, rerunState, sheetState, indexState>>

\* The same entry goes through _load_and_apply_metadata a second time.
ReapplyMetadata ==
    /\ pc = "reapply"
    /\ last_call' = [last_call EXCEPT !.kind = "reapply"]
    /\ games_metadata_records' =
           ApplyMetadataEntry(games_metadata_records,
                              last_call.relative_path, last_call.entry)
    /\ records_before' = games_metadata_records
    /\ pc' = "catalog_done"
    /\ UNCHANGED <<compatible_game_ids, games, all_download_urls,
                   archiveState, mainState, rerunState, sheetState, indexState>>

CatalogInit ==
    /\ pc = "row1"
    /\ compatible_game_ids \in SUBSET GameIds
    /\ games = <<>>
    /\ all_download_urls = <<>>
    /\ games_metadata_records = <<>>
    /\ records_before = <<>>
    /\ last_call = NoCall
    /\ ArchiveIdle
    /\ MainIdle
    /\ RerunIdle
    /\ SheetIdle
    /\ IndexIdle

CatalogNext ==
    \/ GetGameDownloadsRow
    \/ GetDemosRow
    \/ GetDirectorDemosRow
    \/ LoadAndApplyMetadata
    \/ ReapplyMetadata

CatalogSpec == CatalogInit /\ [][CatalogNext]_vars

\* Rows of the demos sheet with every combination of language cells.
LanguageRows ==
    [sheet : {"game_demos"}, id : GameIds, url : {"a/x.zip"},
     text : {"Tech"}, category : {""}, platform : {""},
     cells : [SeqRange(lang_columns) -> LangValues]]

ReadLanguageRow ==
    /\ pc = "row1"
    /\ \E download \in LanguageRows : GetDemosRowOf(download)

LanguagesSpec == CatalogInit /\ [][ReadLanguageRow]_vars

----------------------------------------------------------------------------
\* Vocabulary of the catalog properties, stated on the rows and entries

\* The row last read passed the filters of its loader.
RowAccepted ==
    /\ last_call.kind = "row"
    /\ last_call.row.id \in compatible_game_ids
    /\ last_call.row.sheet = "game_downloads" =>
           /\ last_call.row.text # "Addon Pack"
           /\ last_call.row.category = "games"

\* The entry last applied is neither marked skip nor without id.
EntryApplied ==
    /\ last_call.kind \in {"override", "reapply"}
    /\ last_call.entry.skip # {TRUE}
    /\ last_call.entry.id # {}

\* The target name the last call was made for.
CallPath ==
    IF last_call.kind = "row" THEN GetRelativePath(last_call.row.url)
    ELSE last_call.relative_path

\* Positions of the records the catalog held under that name before the call.
PositionsBefore ==
    {i \in 1..Len(records_before) :
         records_before[i].relative_path = {CallPath}}

FirstPositionBefore ==
    CHOOSE i \in PositionsBefore : \A j \in PositionsBefore : i <= j

\* The fields the caller of add_or_update_game_metadata supplied.
Supplied ==
    IF last_call.kind = "row"
    THEN [description |->
              IF last_call.row.sheet = "game_downloads"
              THEN {DownloadDescription(last_call.row.text)}
              ELSE {DemoDescription(PlatformName(last_call.row.platform),
                                    last_call.row.text)},
          download_url |->
              {[prefix |-> IF last_call.row.sheet = "game_downloads"
                           THEN "https://downloads.scummvm.org/frs/extras/"
                           ELSE "",
                url |-> last_call.row.url]},
          languages |-> StoredLanguages(ExtractLanguages(last_call.row.cells)),
          platform |-> {PlatformName(last_call.row.platform)} \ {""}]
    ELSE [description |-> last_call.entry.description,
          download_url |-> {},
          languages |-> {},
          platform |-> last_call.entry.platform]

\* The language list of a record, empty when the record has no such field.
LanguageList(record) ==
    IF record.languages = {} THEN <<>>
    ELSE CHOOSE list \in record.languages : TRUE

\* Column (position in lang_columns) where a value is first found.
FirstColumn(cells, value) ==
    CHOOSE c \in 1..Len(lang_columns) :
        /\ Strip(cells[lang_columns[c]]) = value
        /\ \A d \in 1..(c - 1) : Strip(cells[lang_columns[d]]) # value

\* list holds the non-blank values of the language cells, except those in
\* excluded, once each and in the order of their first columns.
IsLanguageListOf(list, cells, excluded) ==
    /\ \A i \in 1..Len(list) :
           /\ list[i] \notin ({""} \cup excluded)
           /\ \E c \in 1..Len(lang_columns) :
                  Strip(cells[lang_columns[c]]) = list[i]
    /\ \A c \in 1..Len(lang_columns) :
           Strip(cells[lang_columns[c]]) \notin ({""} \cup excluded) =>
               \E i \in 1..Len(list) : list[i] = Strip(cells[lang_columns[c]])
    /\ \A i, j \in 1..Len(list) :
           i < j => /\ list[i] # list[j]
                    /\ FirstColumn(cells, list[i]) < FirstColumn(cells, list[j])

\* The last row read created a record.
RecordBuiltFromRow ==
    /\ RowAccepted
    /\ Len(games_metadata_records) = Len(records_before) + 1

----------------------------------------------------------------------------
\* Properties of the catalog

\* C21: applying an override entry a second time leaves the catalog as the
\* first application left it: the same records, as many, in the same order.
C21_OverrideMergeIdempotent ==
    pc = "catalog_done" => games_metadata_records = records_before

\* C22: an override entry merged into the record a spreadsheet row created
\* under the same target name replaces each field the entry holds, keeps
\* every other field, and leaves the record the id it had before.
C22_OverrideKeepsIdentity ==
    (last_call.kind = "override" /\ EntryApplied /\ PositionsBefore # {}) =>
        LET before == records_before[FirstPositionBefore]
            after == games_metadata_records[FirstPositionBefore]
        IN /\ Len(games_metadata_records) = Len(records_before)
           /\ after.id = before.id
           /\ \A key \in DOMAIN after \ {"id"} :
                  after[key] =
                      IF key \in DOMAIN last_call.entry
                         /\ last_call.entry[key] # {}
                      THEN last_call.entry[key]
                      ELSE before[key]

\* C23: a call for a target name that has a record patches that record with
\* the description, source URL, languages and platform the caller supplied
\* and keeps the other fields; a call for a name without record appends one;
\* for loader rows and override entries alike.
C23_AddOrUpdatePatches ==
    (RowAccepted \/ (last_call.kind = "override" /\ EntryApplied)) =>
        IF PositionsBefore # {}
        THEN LET before == records_before[FirstPositionBefore]
                 after == games_metadata_records[FirstPositionBefore]
             IN /\ Len(games_metadata_records) = Len(records_before)
                /\ \A key \in DOMAIN Supplied :
                       after[key] = IF Supplied[key] # {}
                                    THEN Supplied[key] ELSE before[key]
        ELSE /\ Len(games_metadata_records) = Len(records_before) + 1
             /\ SubSeq(games_metadata_records, 1, Len(records_before))
                    = records_before

\* C29: while the loaders run, and until the overrides are applied, a row
\* whose id is not in the compatible-id set leaves the records, the id-to-URL
\* map and the download list as they were; every record and every key of the
\* map carries a compatible id, and the list only grows by the URL of a row
\* with a compatible id.
C29_OnlyCompatibleRows ==
    /\ [][(last_call'.kind = "row"
           /\ last_call'.row.id \notin compatible_game_ids)
          => UNCHANGED <<games_metadata_records, games,
                         all_download_urls>>]_vars
    /\ [][all_download_urls' # all_download_urls
          => /\ last_call'.row.id \in compatible_game_ids
             /\ Len(all_download_urls') = Len(all_download_urls) + 1
             /\ all_download_urls'[Len(all_download_urls')].url
                    = last_call'.row.url]_vars
    /\ [](pc \in {"row1", "row2", "override"} =>
            /\ \A i \in 1..Len(games_metadata_records) :
                   games_metadata_records[i].id \subseteq compatible_game_ids
            /\ \A k \in DOMAIN games :
                   \E g \in compatible_game_ids :
                       k[1] = g \/ (g = "scumm:g1" /\ k[1] = "g1"))

\* A row with an incompatible id was read after a compatible row was stored.
C29_Witness ==
    /\ last_call.kind = "row"
    /\ last_call.row.id \notin compatible_game_ids
    /\ last_call.row.sheet = "game_demos"
    /\ Len(games_metadata_records) = 1
    /\ Len(all_download_urls) = 1
    /\ DOMAIN games # {}

\* C30 as stated: the languages stored on a record built from a row are the
\* non-blank values of lang, language, language1, language2, language3 in
\* that order, each once; nothing else is added.
C30_LanguagesAsStated ==
    RecordBuiltFromRow =>
        IsLanguageListOf(
            LanguageList(games_metadata_records[Len(games_metadata_records)]),
            last_call.row.cells, {})

\* C30: the languages stored on a record built from a row are the non-blank
\* values of lang, language, language1, language2, language3 in that order,
\* each once, with the value "en" left out; nothing is added, and a record
\* whose list would be empty has no languages field.
C30_LanguagesWithoutEn ==
    RecordBuiltFromRow =>
        LET record == games_metadata_records[Len(games_metadata_records)]
        IN /\ IsLanguageListOf(LanguageList(record), last_call.row.cells,
                               {"en"})
           /\ record.languages # {<<>>}

\* A record was built from a row that names "en" first and "de" twice.
C30_Witness ==
    /\ RecordBuiltFromRow
    /\ last_call.row.cells["lang"] = "en"
    /\ last_call.row.cells["language"] = " de"
    /\ last_call.row.cells["language1"] = " "
    /\ last_call.row.cells["language2"] = "de"
    /\ games_metadata_records[Len(games_metadata_records)].languages
           = {<<"de">>}

----------------------------------------------------------------------------
\* extract_zip on an archive
\*
\* The name of an entry is the sequence name.split('/'): "Foo/a.txt" is
\* <<"Foo", "a.txt">> and the directory entry "Foo/" is <<"Foo", "">>.

\* The entries an archive of the model may hold.
EntryNames ==
    {<<"a.txt">>,
     <<"Foo", "">>, <<"Foo", "a.txt">>, <<"Foo", "sub", "b.txt">>,
     <<"Bar", "">>, <<"Bar", "b.txt">>,
     <<"__MACOSX", "">>, <<"__MACOSX", "._a.txt">>}

\* name.startswith('__MACOSX/')
StartsWithMacosx(name) == Len(name) > 1 /\ name[1] = "__MACOSX"

\* member.is_dir(): the name ends with "/".
IsDir(name) == name[Len(name)] = ""

\* root_files of extract_zip
RootFiles(all_names) ==
    {name \in all_names :
         ~StartsWithMacosx(name) /\ Len(name) = 1 /\ name[1] # ""}

\* root_folders of extract_zip: first parts of the names "<folder>/..." whose
\* second part is empty.
RootFolders(all_names) ==
    {name[1] : name \in {n \in all_names :
                             /\ ~StartsWithMacosx(n)
                             /\ Len(n) > 1 /\ n[1] # "" /\ n[2] = ""}}

\* The members the loop over infolist() writes: no directory entries and
\* nothing whose first part is __MACOSX.
WrittenMembers(all_names) ==
    {name \in all_names : ~IsDir(name) /\ name[1] # "__MACOSX"}

\* member_path.relative_to(single_folder) raises ValueError for these.
OutsideFolder(all_names, single_folder) ==
    {name \in WrittenMembers(all_names) : name[1] # single_folder}

ExtractDirExists_Never(dir) == FALSE

\* extract_dir.exists()
ExtractDirExists(dir) == dir # {}

\* The names below a folder; none when the folder does not exist.
Content(dir) == UNION dir

\* The folder after the names written were added to it; writing nothing
\* does not create it.
WriteInto(dir, written) ==
    IF Content(dir) \cup written = {} THEN dir
    ELSE {Content(dir) \cup written}

\* extract_zip(zip_path)
ExtractZipCall ==
    /\ pc \in {"extract_first", "extract_again"}
    /\ pc' = IF pc = "extract_first" THEN "extract_again" ELSE "extract_done"
    /\ extract_dir_before' = extract_dir
    /\ IF ExtractDirExists(extract_dir)
       THEN /\ extract_result' = "extract_dir"
            /\ UNCHANGED <<extract_dir, zip_exists>>
       ELSE IF ~zip_exists
       THEN /\ extract_result' = "raised"
            /\ UNCHANGED <<extract_dir, zip_exists>>
       ELSE IF RootFiles(zip_namelist) = {}
               /\ Cardinality(RootFolders(zip_namelist)) = 1
       THEN LET single_folder ==
                    CHOOSE f \in RootFolders(zip_namelist) : TRUE
                inside == WrittenMembers(zip_namelist)
                              \ OutsideFolder(zip_namelist, single_folder)
            IN IF OutsideFolder(zip_namelist, single_folder) = {}
               THEN /\ extract_dir' =
                           WriteInto(extract_dir, {Tail(n) : n \in inside})
                    /\ zip_exists' = FALSE
                    /\ extract_result' = "extract_dir"
               ELSE \* the members before the first one outside the folder
                    \* were written
                    /\ \E done \in SUBSET inside :
                           extract_dir' =
                               WriteInto(extract_dir,
                                         {Tail(n) : n \in done})
                    /\ extract_result' = "raised"
                    /\ UNCHANGED zip_exists
       ELSE \* zip_ref.extractall(extract_dir)
            /\ extract_dir' = WriteInto(extract_dir, zip_namelist)
            /\ zip_exists' = FALSE
            /\ extract_result' = "extract_dir"
    /\ UNCHANGED <<zip_namelist, catalogState, mainState, rerunState, sheetState, indexState>>

ExtractInit ==
    /\ pc = "extract_first"
    /\ zip_namelist \in SUBSET EntryNames
    /\ zip_exists = TRUE
    /\ extract_dir \in {{}, {{<<"a.txt">>}}}
    /\ extract_dir_before = {}
    /\ extract_result = "none"
    /\ CatalogIdle
    /\ MainIdle
    /\ RerunIdle
    /\ SheetIdle
    /\ IndexIdle

ExtractSpec == ExtractInit /\ [][ExtractZipCall]_vars

----------------------------------------------------------------------------
\* Vocabulary of the extraction properties, stated on the names of the archive

\* Junk entries: everything under __MACOSX/.
UnderMacosx(name) == name[1] = "__MACOSX" /\ Len(name) > 1

\* Names of the files of the archive that are not junk.
ArchiveFiles ==
    {name \in zip_namelist : name[Len(name)] # "" /\ ~UnderMacosx(name)}

\* Root-level files of the archive.
TopLevelFiles == {name \in ArchiveFiles : Len(name) = 1}

\* Root-level folders of the archive, with or without an entry of their own.
TopLevelFolders ==
    {name[1] : name \in {n \in zip_namelist :
                             Len(n) > 1 /\ ~UnderMacosx(n)}}

\* Files below the destination folder.
FilesWritten == {name \in Content(extract_dir) : name[Len(name)] # ""}

\* The first call is over; it found the archive and no destination folder.
Extracted == pc = "extract_again" /\ extract_dir_before = {}

----------------------------------------------------------------------------
\* Properties of extract_zip

\* C24: a call that finds the destination folder in place changes nothing in
\* local storage, leaves the archive where it is and returns the folder.
C24_ExistingFolderUntouched ==
    [][(pc \in {"extract_first", "extract_again"} /\ extract_dir # {})
       => /\ extract_dir' = extract_dir
          /\ zip_exists' = zip_exists
          /\ extract_result' = "extract_dir"]_vars

\* A call found the folder of an earlier run and the archive beside it.
C24_Witness ==
    /\ pc = "extract_again"
    /\ extract_dir_before # {}
    /\ extract_dir = extract_dir_before
    /\ zip_exists
    /\ zip_namelist # {}
    /\ extract_result = "extract_dir"

\* C25: an archive without root-level files whose entries all lie in one
\* root-level folder, with or without a directory entry for that folder, is
\* extracted with the folder name stripped from every member.
C25_SingleFolderUnwrapped ==
    (Extracted
     /\ TopLevelFiles = {} /\ Cardinality(TopLevelFolders) = 1) =>
        /\ extract_result = "extract_dir"
        /\ FilesWritten = {Tail(name) : name \in ArchiveFiles}

\* C26: an archive with a root-level file, or with more than one root-level
\* folder, is extracted with the path of every entry preserved.
C26_PathsPreserved ==
    (Extracted
     /\ (TopLevelFiles # {} \/ Cardinality(TopLevelFolders) > 1)) =>
        /\ extract_result = "extract_dir"
        /\ \A name \in ArchiveFiles : name \in FilesWritten

\* C27: nothing under __MACOSX/ is written to the destination folder.
C27_NoMacosxWritten ==
    \A name \in Content(extract_dir) : ~UnderMacosx(name)


----------------------------------------------------------------------------
\* Properties of the run as a whole

\* The directories under the remote path, final names and <name>.uploading.
MirrorChildren ==
    {n \in Names : remote_final[n] = "full"}
        \cup {Uploading(n) : n \in {m \in Names : remote_temp[m] = "copying"}}

C34_NoRetry ==
    /\ \A i, j \in 1..Len(all_games_to_process) :
            all_games_to_process[i] = all_games_to_process[j] => i = j
    /\ item_attempts.download <= 1
    /\ item_attempts.copy <= 1
    /\ item_attempts.rename <= item_attempts.copy
    /\ downloads_started <= idx
    /\ copies_started <= idx

C34_Witness ==
    /\ pc = "mark"
    /\ idx = 2
    /\ downloads_started = 2
    /\ copies_started = 2
    /\ upload_result = "False"
    /\ item_attempts.download = 1
    /\ item_attempts.rename = 1
    /\ transfer_count = 0

\* C35: every item of the processed list is on the mirror under its final
\* name: its target name was in the snapshot, or the final name holds the
\* folder an upload of this run renamed into place.  An item whose upload
\* failed, or that was downloaded and never uploaded, is not in the list.
C35_ProcessedOnMirror ==
    \A n \in SeqRange(processed_games_metadata) :
        n \in snapshot0 \/ remote_final[n] # "absent"

\* The target names whose final remote name was put in place by an upload of
\* this run: on the mirror now, whatever the folder held, and not in the
\* snapshot.
CompletedUploads ==
    {n \in Names : remote_final[n] # "absent" /\ n \notin snapshot0}

\* C37: with --max-transfers N the uploads completed in the run (copy and
\* rename both succeeded) never outnumber N, and transfer_count is the
\* number of completed uploads: it is 0 until the first item is decided, and
\* from then on it counts the completed uploads, the one upload_folder has
\* just returned True for being counted by the next statement.  A failed
\* upload and a download without upload leave it as it is.
C37_CounterCountsCompletedUploads ==
    /\ idx = 0 => transfer_count = 0
    /\ idx > 0 =>
        LET completed == Cardinality(CompletedUploads) IN
        /\ \A m \in max_transfers : completed <= m
        /\ transfer_count =
              IF pc = "after_upload" /\ upload_result = "True"
              THEN completed - 1 ELSE completed

C37_Witness ==
    /\ max_transfers = {1}
    /\ pc = "mark"
    /\ idx = 2
    /\ copies_started = 2
    /\ downloads_started = 2
    /\ upload_result = "True"
    /\ transfer_count = 1
    /\ remote_final[all_games_to_process[1]] = "absent"

\* C38: a target name is decided at most once in a run, so the
\* exists_on_remote computed for the item being decided is the membership of
\* its target name in the snapshot as it was first taken, although every
\* match takes the matched name out of the set the later lookups are given.
C38_ExistsOnRemoteIsInitialMembership ==
    Deciding =>
        /\ \A i \in 1..(idx - 1) : all_games_to_process[i] # Current
        /\ exists_on_remote = (Current \in snapshot0)
        /\ Current \notin remote_folders

C38_Witness ==
    /\ pc = "mark"
    /\ idx = 2
    /\ exists_on_remote
    /\ all_games_to_process[1] \in snapshot0
    /\ all_games_to_process[1] \notin remote_folders
    /\ Current \in snapshot0
    /\ Cardinality(snapshot0) = 2
    /\ remote_folders = {}

\* C39: an identifier of game_ids that is no URL and no key of the catalog
\* ends the run with sys.exit(1) while the work list is built: no item has
\* been decided, no download and no upload has been started, neither the
\* export nor an index has been written, the only step left is the end of
\* the program, and that step closes the remote session.
C39_UnknownIdentifierExits ==
    /\ [](pc = "exit1" =>
            /\ all_games_to_process = <<>>
            /\ idx = 0
            /\ ~Deciding
            /\ downloads_started = 0
            /\ copies_started = 0
            /\ games_json = <<>>
            /\ ~index_built)
    /\ [][pc = "exit1" =>
            /\ pc' = "exited"
            /\ ssh_connection' = "closed"
            /\ UNCHANGED runState]_vars

----------------------------------------------------------------------------
\* Two runs in a row: the program is started again with the same arguments
\* over the same catalog and the mirror the first run left

\* The first run starts like any run, with a remote configured and no
\* --max-transfers.
ConvergenceInit ==
    /\ scp_server = TRUE
    /\ scp_path = TRUE
    /\ max_transfers = {}
    /\ ssh_connection = "not_opened"
    /\ games_metadata = {}
    /\ pc = "open_ssh"
    /\ remote_final \in [Names -> {"absent", "full"}]
    /\ remote_temp \in [Names -> {"absent", "copying"}]
    /\ \A n \in Names : remote_final[n] = "absent" \/ remote_temp[n] = "absent"
    /\ remote_folders = {}
    /\ snapshot0 = {}
    /\ all_games_to_process = <<>>
    /\ skipped_overrides = {}
    /\ idx = 0
    /\ game_data = NoItem
    /\ exists_on_remote = FALSE
    /\ allow_transfers = FALSE
    /\ should_process_metadata = FALSE
    /\ local = NoLocal
    /\ downloaded_file = "unset"
    /\ upload_result = "none"
    /\ branch = "none"
    /\ transfer_count = 0
    /\ any_uploads_occurred = FALSE
    /\ processed_games_metadata = <<>>
    /\ downloads_started = 0
    /\ copies_started = 0
    /\ item_attempts = NoAttempts
    /\ copy_ok = FALSE
    /\ retrieve_ok = FALSE
    /\ games_json = <<>>
    /\ index_built = FALSE
    /\ orphaned_folders = {}
    /\ run = 1
    /\ item_plan = <<>>
    /\ transferred_before = {}
    /\ CatalogIdle
    /\ ArchiveIdle
    /\ SheetIdle
    /\ IndexIdle

\* download_file whose urlretrieve and rename both succeed.
RetrieveSucceeds ==
    /\ run > 0
    /\ UrlRetrieve
    /\ retrieve_ok'

RenameSucceeds ==
    /\ run > 0
    /\ DownloadRename
    /\ pc' = "downloaded"

\* upload_folder whose scp -r and mv both exit 0.
CopySucceeds ==
    /\ run > 0
    /\ UploadCopy
    /\ copy_ok'

MoveSucceeds ==
    /\ run > 0
    /\ UploadMove
    /\ upload_result' = "True"

\* The program is started again after a run that ended past
\* build_http_index: main opens a session (line 1320), loads the same
\* catalog (lines 1339-1352), download_and_process_games resets its
\* counters (lines 1042-1043), takes a snapshot of the mirror as it is now
\* (line 1047) and builds the same work list (lines 1053-1113); __init__
\* starts with an empty processed list (line 48).
SecondRun ==
    /\ pc = "exited"
    /\ run = 1
    /\ index_built
    /\ run' = 2
    /\ pc' = "loop"
    /\ ssh_connection' = "open"
    /\ remote_folders' = ListChildDirectories(remote_final, remote_temp)
    /\ snapshot0' = ListChildDirectories(remote_final, remote_temp)
    /\ idx' = 0
    /\ transfer_count' = 0
    /\ any_uploads_occurred' = FALSE
    /\ processed_games_metadata' = <<>>
    /\ downloads_started' = 0
    /\ copies_started' = 0
    /\ games_json' = <<>>
    /\ index_built' = FALSE
    /\ UNCHANGED <<scp_server, scp_path, max_transfers, games_metadata,
                   remote_final, remote_temp, all_games_to_process,
                   skipped_overrides, game_data, exists_on_remote,
                   allow_transfers, should_process_metadata, local,
                   downloaded_file, upload_result, branch, item_attempts,
                   copy_ok, retrieve_ok, orphaned_folders, item_plan,
                   transferred_before, catalogState, archiveState,
                   sheetState, indexState>>

ConvergenceNext ==
    \/ OpenSshConnection
    \/ LoadCatalog
    \/ MainFinally
    \/ GetRemoteFolders
    \/ BuildWorkList
    \/ DecideItem
    \/ Download
    \/ RetrieveSucceeds
    \/ RenameSucceeds
    \/ AfterDownload
    \/ Extract
    \/ UploadCleanStale
    \/ CopySucceeds
    \/ MoveSucceeds
    \/ AfterUpload
    \/ MarkProcessed
    \/ CheckOrphans
    \/ Export
    \/ BuildHttpIndex
    \/ SecondRun

ConvergenceSpec == ConvergenceInit /\ [][ConvergenceNext]_vars

\* C36 (convergence): in the second of two runs without transfer limit, the
\* first of which ended with every download and upload it started
\* succeeding, no download and no upload is started, and every item the
\* first run downloaded or uploaded is decided ALREADY_REMOTE.
C36_SecondRunTransfersNothing ==
    run = 2 =>
        /\ downloads_started = 0
        /\ copies_started = 0
        /\ (Deciding /\ Current \in transferred_before) =>
                branch = "ALREADY_REMOTE"

----------------------------------------------------------------------------
\* Reading a sheet: the body of the export and parse_tsv

\* The characters of a body: the two line-end characters of the export, the
\* column delimiter, and what a cell can hold.
CRLF == <<"CR", "LF">>

TAB == <<"TAB">>

\* str.strip() removes these from both ends.
Whitespace == {" ", "TAB", "CR", "LF"}

\* The cells of the model: the empty string, a letter, a space.
Cells == {<<>>, <<"x">>, <<" ">>}

\* The column names of the model.
ColumnNames == {<<"i">>, <<"u">>}

\* The header rows: no, one or two columns, each name once.
HeaderRows ==
    {<<>>} \cup {<<a>> : a \in ColumnNames}
           \cup {h \in ColumnNames \X ColumnNames : h[1] # h[2]}

\* The data lines a sheet with this header can export: up to one cell more
\* than the header has columns.
DataLines(header) ==
    UNION {[1..k -> Cells] : k \in 1..(Len(header) + 1)}

\* A line of the export: its cells with the delimiter between them.
RECURSIVE JoinCells(_)
JoinCells(cells) ==
    IF cells = <<>> THEN <<>>
    ELSE IF Len(cells) = 1 THEN cells[1]
    ELSE cells[1] \o TAB \o JoinCells(Tail(cells))

\* str.split(sep) with a separator: the pieces between the occurrences of
\* sep, found from the left; a text without sep is one piece.
RECURSIVE SplitOn(_, _)
SplitOn(text, sep) ==
    LET at == {i \in 1..(Len(text) - Len(sep) + 1) :
                  SubSeq(text, i, i + Len(sep) - 1) = sep}
    IN IF at = {} THEN <<text>>
       ELSE LET i == CHOOSE j \in at : \A k \in at : j <= k
            IN <<SubSeq(text, 1, i - 1)>>
                   \o SplitOn(SubSeq(text, i + Len(sep), Len(text)), sep)

\* line 295: not line.strip()
StripsToEmpty(line) == \A i \in 1..Len(line) : line[i] \in Whitespace

\* A row that holds every header name, the missing ones as empty strings.
RowOf_Padded(headers, values) ==
    [h \in {headers[c] : c \in 1..Len(headers)} |->
        LET c == CHOOSE d \in 1..Len(headers) : headers[d] = h
        IN IF c <= Len(values) THEN values[c] ELSE <<>>]

\* lines 298-301: row[headers[col]] = value for every value that has a
\* header; a later column of the same name overwrites an earlier one.
RowOf(headers, values) ==
    LET cols == {c \in 1..Len(values) : c <= Len(headers)}
    IN [h \in {headers[c] : c \in cols} |->
           values[CHOOSE c \in cols :
                      /\ headers[c] = h
                      /\ \A d \in cols : headers[d] = h => d <= c]]

\* lines 295-296: the lines the loop does not skip.
NotSkipped(line) == ~StripsToEmpty(line)

\* parse_tsv (lines 285-305)
ParseTsv(text) ==
    LET lines == SplitOn(text, CRLF)
        headers == SplitOn(lines[1], TAB)
        rows == SelectSeq(SubSeq(lines, 2, Len(lines)), NotSkipped)
    IN IF lines = <<>> THEN <<>>
       ELSE [k \in 1..Len(rows) |-> RowOf(headers, SplitOn(rows[k], TAB))]

SheetInit ==
    /\ pc = "sheet"
    /\ sheet_header \in HeaderRows
    /\ sheet_lines = <<>>
    /\ tsv_text = JoinCells(sheet_header)
    /\ tsv_result = {}
    /\ MainIdle
    /\ CatalogIdle
    /\ ArchiveIdle
    /\ RerunIdle
    /\ IndexIdle

\* The sheet has one more line: the export ends the line before it with
\* CR LF.  A sheet without columns has no lines.
AppendLine ==
    /\ pc = "sheet"
    /\ sheet_header # <<>>
    /\ Len(sheet_lines) < MaxLines
    /\ \E line \in DataLines(sheet_header) :
        /\ sheet_lines' = Append(sheet_lines, line)
        /\ tsv_text' = tsv_text \o CRLF \o JoinCells(line)
    /\ UNCHANGED <<pc, sheet_header, tsv_result>>
    /\ UNCHANGED <<mainState, catalogState, archiveState, rerunState,
                   indexState>>

\* get_google_sheet returns the body and parse_tsv is called with it.
ParseTsvCall ==
    /\ pc = "sheet"
    /\ tsv_result' = {ParseTsv(tsv_text)}
    /\ pc' = "parsed"
    /\ UNCHANGED <<sheet_header, sheet_lines, tsv_text>>
    /\ UNCHANGED <<mainState, catalogState, archiveState, rerunState,
                   indexState>>

SheetNext ==
    \/ AppendLine
    \/ ParseTsvCall

SheetSpec == SheetInit /\ [][SheetNext]_vars

\* A data line of the sheet is blank when its cells hold nothing but spaces.
BlankLine(line) ==
    \A c \in 1..Len(line) : \A i \in 1..Len(line[c]) : line[c][i] = " "

DataLine(line) == ~BlankLine(line)

\* The data lines of the sheet that are not blank, in their order.
NonBlankLines == SelectSeq(sheet_lines, DataLine)

\* The list parse_tsv returned.
Parsed == CHOOSE r \in tsv_result : TRUE

----------------------------------------------------------------------------
\* build_http_index and _generate_index_files

\* current_path of the root directory.
Root == ""

\* The directories below the remote path, named by their path.
Dirs == {"a", "a/s", "b"}

Parent(d) == IF d = "a/s" THEN "a" ELSE Root

\* The order in which the keys were inserted into the tree.
DirOrder == <<"a", "a/s", "b">>

\* lines 863-900: the trees the listing can yield: a directory is in the
\* tree when a listed file lies below it, and then so are its parents.
Trees == {T \in SUBSET Dirs : \A d \in T : Parent(d) = Root \/ Parent(d) \in T}

\* lines 970-976: the keys of the tree of d that are directories, in order.
Subdirectories(tree, d) ==
    LET IsSubdirectory(c) == c \in tree /\ Parent(c) = d
    IN SelectSeq(DirOrder, IsSubdirectory)

\* The outcomes of ssh ... test -f <d>/index.json, run with check=False and
\* timeout=10: exit 0 when the file is there, exit 1 when it is not, exit 255
\* when ssh could not run the command, or no exit within the timeout.
ProbeOutcomes(doc) ==
    IF doc = "absent" THEN {"exit1", "exit255", "timeout"}
    ELSE {"exit0", "exit255", "timeout"}

\* lines 917-929: always for the root; for any other directory when the
\* probe's return code is not 0.
ShouldCreateIndex(current_path, returncode) ==
    current_path = Root \/ returncode # "exit0"

IndexInit ==
    /\ pc = "find"
    /\ scp_server \in BOOLEAN
    /\ scp_path \in BOOLEAN
    /\ RunIdle
    /\ file_tree \in Trees
    /\ index_docs \in [Dirs \cup {Root} -> {"absent", "old"}]
    /\ probe_result = [d \in Dirs |-> "none"]
    /\ scp_issued = {}
    /\ pending = <<>>
    /\ CatalogIdle
    /\ ArchiveIdle
    /\ RerunIdle
    /\ SheetIdle

\* lines 843-861 and 902: without server or path build_http_index returns;
\* a find that exits non-zero ends it with a warning; otherwise
\* _generate_index_files is called for the root.
FindListing ==
    /\ pc = "find"
    /\ IF ~Configured
       THEN /\ pc' = "index_returned"
            /\ UNCHANGED pending
       ELSE \E ok \in BOOLEAN :
              IF ok
              THEN /\ pending' = <<Root>>
                   /\ pc' = "generate"
              ELSE /\ pc' = "index_returned"
                   /\ UNCHANGED pending
    /\ UNCHANGED <<file_tree, index_docs, probe_result, scp_issued>>
    /\ UNCHANGED <<mainState, catalogState, archiveState, rerunState,
                   sheetState>>

\* lines 910-983, one call of _generate_index_files: the probe (not for the
\* root), the scp of the document (check=True) when should_create_index,
\* then the calls for the subdirectories.  A probe that times out and an scp
\* that fails raise; the except clauses of this call catch the exception, so
\* the subdirectories of this directory are not visited.
GenerateIndexFiles ==
    /\ pc = "generate"
    /\ pending # <<>>
    /\ LET d == Head(pending)
           down == Subdirectories(file_tree, d) \o Tail(pending)
       IN \E returncode \in ProbeOutcomes(index_docs[d]) :
          /\ probe_result' = IF d = Root THEN probe_result
                             ELSE [probe_result EXCEPT ![d] = returncode]
          /\ IF d # Root /\ returncode = "timeout"
             THEN /\ pending' = Tail(pending)
                  /\ UNCHANGED <<index_docs, scp_issued>>
             ELSE IF ShouldCreateIndex(d, returncode)
             THEN /\ scp_issued' = scp_issued \cup {d}
                  /\ \E ok \in BOOLEAN :
                       IF ok
                       THEN /\ index_docs' = [index_docs EXCEPT ![d] = "new"]
                            /\ pending' = down
                       ELSE /\ UNCHANGED index_docs
                            /\ pending' = Tail(pending)
             ELSE /\ pending' = down
                  /\ UNCHANGED <<index_docs, scp_issued>>
    /\ UNCHANGED <<pc, file_tree>>
    /\ UNCHANGED <<mainState, catalogState, archiveState, rerunState,
                   sheetState>>

\* line 904: the call for the root has returned.
GenerateDone ==
    /\ pc = "generate"
    /\ pending = <<>>
    /\ pc' = "index_done"
    /\ UNCHANGED indexState
    /\ UNCHANGED <<mainState, catalogState, archiveState, rerunState,
                   sheetState>>

IndexNext ==
    \/ FindListing
    \/ GenerateIndexFiles
    \/ GenerateDone

IndexSpec == IndexInit /\ [][IndexNext]_vars

\* C32 (index policy): when the index phase ends after a listing that
\* succeeded, the upload of the root's index document has been issued,
\* whatever was there; for any other directory the upload of its index
\* document is issued exactly when the probe for it did not find the
\* document; and an index document that was there before the run, in a
\* directory that is not the root, is never replaced.
C32_IndexPolicy ==
    /\ [](pc = "index_done" => Root \in scp_issued)
    /\ [](\A d \in Dirs :
            d \in scp_issued <=> probe_result[d] \in {"exit1", "exit255"})
    /\ [][\A d \in Dirs :
            index_docs[d] = "old" => index_docs'[d] = "old"]_vars

====
